---- MODULE Spec2Model ----
(***************************************************************************)
(* Model of AutoBeluga/all_matchup_stats.py: the extraction of one match   *)
(* report (team identity resolution, player records, substitutions,        *)
(* starter flags, team sums, shot events) and its persistence into         *)
(* all_matchups_teams, all_matchups_players and match_events.              *)
(*                                                                         *)
(* Strings the code inspects character by character (team names) are       *)
(* sequences of one-character strings; strings the code only compares or   *)
(* stores are TLA+ strings.                                                *)
(***************************************************************************)
EXTENDS Integers, Sequences, FiniteSets, TLC

VARIABLES
    match,                \* schedule context of the match: the handler's arguments
    doc,                  \* what requests.get + BeautifulSoup give for match.match_url
    faults,               \* what the network / the database do on the 1st, 2nd, ... call
    calls,                \* the number of calls made
    home_team_id,         \* locals of the last call, as its DEBUG prints show them
    away_team_id,
    warnings,             \* the "Warning => ..." lines the last call printed
    home_players,
    away_players,
    home_subs_val,
    away_subs_val,
    team_sums,
    home_sca_val,
    away_sca_val,
    data_batch,           \* the shot rows the last call handed to executemany
    outcome,              \* how the last call ended
    all_matchups_teams,   \* committed rows, by unique key
    all_matchups_players, \* committed rows, by unique key
    match_events,         \* committed rows, in insertion order
    log,                  \* the runs begun, the requests made and the lines printed, in order
    schedule,             \* the rows of the schedule table, by date, each with its page
    main_rows,            \* main: rows, what fetch_schedule_since_date returned
    pos,                  \* main: the place of the for loop in main_rows
    pc,                   \* main: "idle", "loop", "call" or "done"; "direct" outside main
    runs,                 \* the runs of main started
    site,                 \* schedule_url: the fixtures the site lists for each date
    dates_to_update,      \* schedule_url main: the dates of its for loop
    upd_pos,              \* schedule_url main: the place of the for loop
    upd_pc,               \* schedule_url main: "idle", "loop" or "done"; "off" outside it
    stop_script,          \* what the last update_schedule_for_date returned
    scout_reports_url,    \* sr_newlines: the rows [line_id, player_id] of the table
    scout_reports,        \* sr_newlines: the player_id of the committed rows
    scout_reports_done,   \* sr_newlines: the committed rows, in insertion order
    scraped_line_ids,     \* sr_newlines main: the set of that name
    sr_rows,              \* sr_newlines main: rows, what the SELECT returned
    sr_pos,               \* sr_newlines main: the place of the for loop in rows
    sr_pc,                \* sr_newlines main: "idle", "loop" or "done"; "off" outside it
    sr_runs               \* the runs of sr_newlines main started

main_vars == <<schedule, main_rows, pos, pc, runs>>

url_vars == <<site, dates_to_update, upd_pos, upd_pc, stop_script>>

sr_vars == <<scout_reports_url, scout_reports, scout_reports_done, scraped_line_ids,
             sr_rows, sr_pos, sr_pc, sr_runs>>

vars == <<match, doc, faults, calls, home_team_id, away_team_id, warnings, home_players,
          away_players, home_subs_val, away_subs_val, team_sums, home_sca_val,
          away_sca_val, data_batch, outcome, all_matchups_teams,
          all_matchups_players, match_events, log, schedule, main_rows, pos, pc, runs,
          site, dates_to_update, upd_pos, upd_pc, stop_script,
          scout_reports_url, scout_reports, scout_reports_done, scraped_line_ids,
          sr_rows, sr_pos, sr_pc, sr_runs>>

(***************************************************************************)
(* Bounds of the model.                                                    *)
(***************************************************************************)
MaxAnchors == 3     \* links of the scorebox
MaxEvents == 2      \* events of the timeline
MaxStatRows == 3    \* rows over all stats tables
MaxShotRows == 2    \* rows of the shot log
MaxCalls == 2       \* calls of the function on the match
MaxRows == 2        \* rows of the schedule table
MaxRuns == 2        \* runs of main
MaxLines == 2       \* rows of scout_reports_url

(***************************************************************************)
(* Strings as character sequences.                                         *)
(***************************************************************************)
UpperToLower ==
    [c \in {"A", "B", "I", "M", "N", "O", "U", "W"} |->
        CASE c = "A" -> "a" [] c = "B" -> "b" [] c = "I" -> "i" [] c = "M" -> "m"
          [] c = "N" -> "n" [] c = "O" -> "o" [] c = "U" -> "u" [] c = "W" -> "w"]

\* str.lower()
lower(s) == [i \in DOMAIN s |-> IF s[i] \in DOMAIN UpperToLower THEN UpperToLower[s[i]] ELSE s[i]]

\* Python's `sub in s` on strings
StrIn(sub, s) ==
    \E i \in 0..(Len(s) - Len(sub)) : SubSeq(s, i + 1, i + Len(sub)) = sub

Wolves == <<"W", "o", "l", "v", "e", "s">>
ManchesterUtd == <<"M", "a", "n", "c", "h", "e", "s", "t", "e", "r", " ", "U", "t", "d">>
NewcastleUtd == <<"N", "e", "w", "c", "a", "s", "t", "l", "e", " ", "U", "t", "d">>

Sentinel == "0000000000"

(***************************************************************************)
(* Team identity resolution.                                               *)
(***************************************************************************)
\* An <a href="/en/squads/..."> of the scorebox: its text and its href. The href is
\* [id, slash]: "/en/squads/<id>/..." when slash, "/en/squads/<id>" otherwise.
extract_team_id(hval) == IF hval.slash THEN hval.id ELSE Sentinel

\* found_team_map[k] = v on a dict that keeps insertion order: a sequence of
\* [name, id] with distinct names.
DictSet(d, k, v) ==
    IF \E i \in DOMAIN d : d[i].name = k
    THEN [i \in DOMAIN d |-> IF d[i].name = k THEN [name |-> k, id |-> v] ELSE d[i]]
    ELSE Append(d, [name |-> k, id |-> v])

RECURSIVE BuildFoundTeamMap(_, _)
BuildFoundTeamMap(a_tags, d) ==
    IF a_tags = <<>> THEN d
    ELSE BuildFoundTeamMap(Tail(a_tags),
                           DictSet(d, Head(a_tags).text, extract_team_id(Head(a_tags).href)))

found_team_map_of(a_tags) == BuildFoundTeamMap(a_tags, <<>>)

\* safe_lookup without its exact-match step
safe_lookup_substring_only(found_team_map, name_) ==
    LET hits == {i \in DOMAIN found_team_map :
                    StrIn(lower(name_), lower(found_team_map[i].name))}
    IN  IF hits = {} THEN Sentinel
        ELSE found_team_map[CHOOSE i \in hits : \A j \in hits : i <= j].id

safe_lookup(found_team_map, name_) ==
    IF \E i \in DOMAIN found_team_map : found_team_map[i].name = name_
    THEN found_team_map[CHOOSE i \in DOMAIN found_team_map : found_team_map[i].name = name_].id
    ELSE LET hits == {i \in DOMAIN found_team_map :
                         StrIn(lower(name_), lower(found_team_map[i].name))}
         IN  IF hits = {} THEN Sentinel
             ELSE found_team_map[CHOOSE i \in hits : \A j \in hits : i <= j].id

\* the forced ids applied only to a side the lookup left unresolved
ForceKnownId_only_unresolved(team, id) ==
    IF id # Sentinel THEN id
    ELSE IF team = Wolves THEN "8cec06e1"
    ELSE IF team = ManchesterUtd THEN "19538871"
    ELSE IF team = NewcastleUtd THEN "b2b47a98"
    ELSE id

\* "Force certain known IDs"
ForceKnownId(team, id) ==
    LET w == IF team = Wolves THEN "8cec06e1" ELSE id
        m == IF team = ManchesterUtd THEN "19538871" ELSE w
    IN  IF team = NewcastleUtd THEN "b2b47a98" ELSE m

team_ids_found_of(found_team_map) == {found_team_map[i].id : i \in DOMAIN found_team_map}

WarningsAfter(home, away, warn, team_ids_found) ==
    [home |-> home,
     away |-> away,
     warn |-> warn
              \cup (IF home = Sentinel /\ away = Sentinel THEN {"both_failed"} ELSE {})
              \cup (IF Cardinality(team_ids_found) > 2 THEN {"more_than_two"} ELSE {})]

\* the fallback without its elif branch for the home side
Fallback_away_only(home_id, away_id, team_ids_found) ==
    LET leftover == team_ids_found \ {home_id}
    IN  IF home_id # Sentinel /\ away_id = Sentinel
        THEN IF Cardinality(leftover) = 1
             THEN WarningsAfter(home_id, CHOOSE x \in leftover : TRUE, {}, team_ids_found)
             ELSE WarningsAfter(home_id, away_id, {"fallback_away"}, team_ids_found)
        ELSE WarningsAfter(home_id, away_id, {}, team_ids_found)

\* the fallback taking some leftover id whenever one is left (len(leftover) >= 1)
Fallback_any_leftover(home_id, away_id, team_ids_found) ==
    IF home_id # Sentinel /\ away_id = Sentinel
    THEN LET leftover == team_ids_found \ {home_id}
         IN  IF Cardinality(leftover) >= 1
             THEN WarningsAfter(home_id, CHOOSE x \in leftover : TRUE, {}, team_ids_found)
             ELSE WarningsAfter(home_id, away_id, {"fallback_away"}, team_ids_found)
    ELSE IF away_id # Sentinel /\ home_id = Sentinel
    THEN LET leftover == team_ids_found \ {away_id}
         IN  IF Cardinality(leftover) >= 1
             THEN WarningsAfter(CHOOSE x \in leftover : TRUE, away_id, {}, team_ids_found)
             ELSE WarningsAfter(home_id, away_id, {"fallback_home"}, team_ids_found)
    ELSE WarningsAfter(home_id, away_id, {}, team_ids_found)

\* "If exactly one team matched, attempt fallback for the other", and the warnings
\* that follow it. Gives the two final codes and the warnings printed.
Fallback(home_id, away_id, team_ids_found) ==
    LET r == IF home_id # Sentinel /\ away_id = Sentinel
             THEN LET leftover == team_ids_found \ {home_id}
                  IN  IF Cardinality(leftover) = 1
                      THEN [home |-> home_id, away |-> CHOOSE x \in leftover : TRUE, warn |-> {}]
                      ELSE [home |-> home_id, away |-> away_id, warn |-> {"fallback_away"}]
             ELSE IF away_id # Sentinel /\ home_id = Sentinel
             THEN LET leftover == team_ids_found \ {away_id}
                  IN  IF Cardinality(leftover) = 1
                      THEN [home |-> CHOOSE x \in leftover : TRUE, away |-> away_id, warn |-> {}]
                      ELSE [home |-> home_id, away |-> away_id, warn |-> {"fallback_home"}]
             ELSE [home |-> home_id, away |-> away_id, warn |-> {}]
    IN  WarningsAfter(r.home, r.away, r.warn, team_ids_found)

\* Lines 224-278 as a whole.
ResolveTeamIds(a_tags, home_team, away_team) ==
    LET found == found_team_map_of(a_tags)
    IN  Fallback(ForceKnownId(home_team, safe_lookup(found, home_team)),
                 ForceKnownId(away_team, safe_lookup(found, away_team)),
                 team_ids_found_of(found))

(***************************************************************************)
(* Match metadata: score, possession, formations.                          *)
(***************************************************************************)
\* sc_divs: the texts of the <div class="score"> elements of the scorebox.
final_score_of(sc_divs) ==
    IF Len(sc_divs) = 2 THEN <<sc_divs[1], " : ", sc_divs[2]>> ELSE <<"0", " : ", "0">>

\* team_stats: [present, tds, s_home, s_away]: the possession header's next row,
\* its number of <td> (0 when the header or the row is missing) and the <strong>
\* text of each ("" when there is none).
possession_of(team_stats) ==
    IF team_stats.present /\ team_stats.tds = 2
    THEN [home |-> IF team_stats.s_home # "" THEN team_stats.s_home ELSE "0%",
          away |-> IF team_stats.s_away # "" THEN team_stats.s_away ELSE "0%"]
    ELSE [home |-> "0%", away |-> "0%"]

\* A lineup div: [present, th, token]: the div exists, it has a <th colspan="2">,
\* and token is what \(([^)]+)\) captures in the header's text ("" when nothing).
formations_of(lineup_a, lineup_b) ==
    IF lineup_a.present /\ lineup_b.present /\ lineup_a.th /\ lineup_b.th
    THEN [home |-> IF lineup_a.token # "" THEN lineup_a.token ELSE "Unknown",
          away |-> IF lineup_b.token # "" THEN lineup_b.token ELSE "Unknown"]
    ELSE [home |-> "Unknown", away |-> "Unknown"]

(***************************************************************************)
(* Player records.  The code treats its 28 tracked statistics alike, but   *)
(* for one renamed column (assisted_shots -> shots_assisted) and one       *)
(* fractional statistic (sca); the model keeps a plain one, the renamed    *)
(* one and the fractional one.  A fractional value is held as its number   *)
(* of halves (sca 1.5 is 3), which Python's floats represent exactly.      *)
(***************************************************************************)
player_stat_map ==
    [k \in {"shots", "assisted_shots", "sca"} |->
        CASE k = "shots" -> "shots"
          [] k = "assisted_shots" -> "shots_assisted"
          [] k = "sca" -> "sca"]

DbCols == {player_stat_map[k] : k \in DOMAIN player_stat_map}
IntDbCols == DbCols \ {"sca"}

\* The cell texts of the model and what int() makes of them; int() raises on the rest.
IntLiterals ==
    {<<"0", 0>>, <<"1", 1>>, <<"2", 2>>, <<"3", 3>>, <<"45", 45>>, <<"89", 89>>,
     <<"90", 90>>, <<"120", 120>>}

\* float(), in halves; float() raises on the rest.
FloatLiterals ==
    {<<p[1], 2 * p[2]>> : p \in IntLiterals}
        \cup {<<"0.5", 1>>, <<"1.5", 3>>, <<"2.5", 5>>}

\* try: int(val_)  except: 0
int_or_zero(val_) ==
    IF \E p \in IntLiterals : p[1] = val_
    THEN (CHOOSE p \in IntLiterals : p[1] = val_)[2]
    ELSE 0

\* try: float(val_)  except: 0.0
float_or_zero(val_) ==
    IF \E p \in FloatLiterals : p[1] = val_
    THEN (CHOOSE p \in FloatLiterals : p[1] = val_)[2]
    ELSE 0

\* sub_in_out values, as the characters the classifier searches.
NoSubTag == <<"n", "/", "a">>
InTag(minute) == <<"I", "n", " ", "|", " ">> \o minute \o <<"'">>
OutTag(minute) == <<"O", "u", "t", " ", "|", " ">> \o minute \o <<"'">>

init_player_dict(pid_, pname_) ==
    [player_id |-> pid_, player |-> pname_, position |-> "N/A", minutes |-> 0,
     starter |-> "no", sub_in_out |-> NoSubTag,
     shots |-> 0, shots_assisted |-> 0, sca |-> 0]

\* home_players / away_players: a dict in insertion order, a sequence of player
\* dicts with distinct player_id.
HasPlayer(players, pid) == \E i \in DOMAIN players : players[i].player_id = pid
IndexOfPlayer(players, pid) == CHOOSE i \in DOMAIN players : players[i].player_id = pid

\* /en/players/([^/]+)/ on the href of the row's player link
player_id_of_href(href_) == IF href_.slash THEN href_.id ELSE Sentinel

\* the row's cells under one try: a cell that fails leaves the row as it was
PopulateRow_abandon_row(pdict, cells) ==
    IF \E k \in DOMAIN cells \cap ((DOMAIN player_stat_map \ {"sca"}) \cup {"minutes"}) :
            ~\E p \in IntLiterals : p[1] = cells[k]
    THEN pdict
    ELSE IF "sca" \in DOMAIN cells /\ ~\E p \in FloatLiterals : p[1] = cells["sca"]
    THEN pdict
    ELSE LET withStats ==
                 [f \in DOMAIN pdict |->
                     IF \E k \in DOMAIN player_stat_map : player_stat_map[k] = f /\ k \in DOMAIN cells
                     THEN LET k == CHOOSE k \in DOMAIN player_stat_map : player_stat_map[k] = f
                          IN  IF k = "sca" THEN float_or_zero(cells[k]) ELSE int_or_zero(cells[k])
                     ELSE pdict[f]]
         IN  IF "minutes" \in DOMAIN cells
             THEN [withStats EXCEPT !.minutes = int_or_zero(cells["minutes"])]
             ELSE withStats

\* "Populate stats", "Position", "Minutes" of one row on the player's dict
PopulateRow(pdict, cells) ==
    LET withStats ==
            [f \in DOMAIN pdict |->
                IF \E k \in DOMAIN player_stat_map : player_stat_map[k] = f /\ k \in DOMAIN cells
                THEN LET k == CHOOSE k \in DOMAIN player_stat_map : player_stat_map[k] = f
                     IN  IF k = "sca" THEN float_or_zero(cells[k]) ELSE int_or_zero(cells[k])
                ELSE pdict[f]]
        withPos ==
            IF "position" \in DOMAIN cells
            THEN [withStats EXCEPT !.position = IF cells["position"] # "" THEN cells["position"] ELSE "N/A"]
            ELSE withStats
    IN  IF "minutes" \in DOMAIN cells
        THEN [withPos EXCEPT !.minutes = int_or_zero(cells["minutes"])]
        ELSE withPos

\* a row starts the record of its player anew
ParseRow_fresh_record(players, row_) ==
    IF ~row_.pth \/ ~row_.a THEN players
    ELSE LET pidv == player_id_of_href(row_.href)
             known == IF HasPlayer(players, pidv) THEN players
                      ELSE Append(players, init_player_dict(pidv, row_.pname))
             i == IndexOfPlayer(known, pidv)
         IN  [known EXCEPT ![i] = PopulateRow(init_player_dict(pidv, row_.pname), row_.cells)]

\* One <tr> of a stats table on the dict of its side
ParseRow(players, row_) ==
    IF ~row_.pth \/ ~row_.a THEN players
    ELSE LET pidv == player_id_of_href(row_.href)
             known == IF HasPlayer(players, pidv) THEN players
                      ELSE Append(players, init_player_dict(pidv, row_.pname))
             i == IndexOfPlayer(known, pidv)
         IN  [known EXCEPT ![i] = PopulateRow(known[i], row_.cells)]

RECURSIVE ParseRows(_, _)
ParseRows(players, rows_) ==
    IF rows_ = <<>> THEN players
    ELSE ParseRows(ParseRow(players, Head(rows_)), Tail(rows_))

\* "Parse Stats Tables": a table is [code, tbody, rows]; gives [home, away].
RECURSIVE ParseStatsTables(_, _, _, _)
ParseStatsTables(stats_tables, hid, aid, acc) ==
    IF stats_tables = <<>> THEN acc
    ELSE LET tbl == Head(stats_tables)
             nxt == IF tbl.code = hid
                    THEN IF tbl.tbody THEN [acc EXCEPT !.home = ParseRows(acc.home, tbl.rows)] ELSE acc
                    ELSE IF tbl.code = aid
                    THEN IF tbl.tbody THEN [acc EXCEPT !.away = ParseRows(acc.away, tbl.rows)] ELSE acc
                    ELSE acc
         IN  ParseStatsTables(Tail(stats_tables), hid, aid, nxt)

(***************************************************************************)
(* Substitution events.  The prime mark U+2019 of the page is written "'". *)
(***************************************************************************)
Digits == {"0", "1", "2", "3", "4", "5", "6", "7", "8", "9"}

\* re.search(r"(\d+)'", min_text): the digits of the leftmost match, <<>> when
\* there is no match.
minute_match(min_text) ==
    LET ends(i) == {j \in i..Len(min_text) - 1 :
                       /\ \A k \in i..j : min_text[k] \in Digits
                       /\ min_text[j + 1] = "'"}
        starts == {i \in DOMAIN min_text : ends(i) # {}}
    IN  IF starts = {} THEN <<>>
        ELSE LET i == CHOOSE i \in starts : \A k \in starts : i <= k
                 j == CHOOSE j \in ends(i) : TRUE
             IN  SubSeq(min_text, i, j)

\* minute = 0, replaced by the matched digits; as the f-string prints it
minute_of(event_div) ==
    IF event_div.minute_divs /\ minute_match(event_div.min_text) # <<>>
    THEN minute_match(event_div.min_text)
    ELSE <<"0">>

\* An event's link: [present, id, slash]; /en/players/([^/]+)/ gives id when slash.
None == "None"
link_player_id(tag) == IF tag.slash THEN tag.id ELSE None

SetTag(players, pid, tag) ==
    IF HasPlayer(players, pid)
    THEN [players EXCEPT ![IndexOfPlayer(players, pid)].sub_in_out = tag]
    ELSE players

\* One <div class="event..."> on [home, away, home_subs, away_subs].
\* event_div: [icon, substitute_in, side, minute_divs, min_text, info, a, small_a]:
\* a is the info div's link outside <small>, small_a the link inside <small>.
ApplyEvent(st, event_div) ==
    IF ~event_div.icon \/ ~event_div.substitute_in \/ ~event_div.info THEN st
    ELSE LET player_in_tag == IF event_div.a.present THEN event_div.a ELSE event_div.small_a
             player_out_tag == event_div.small_a
             minute == minute_of(event_div)
         IN  IF ~player_in_tag.present \/ ~player_out_tag.present THEN st
             ELSE LET player_in_id == link_player_id(player_in_tag)
                      player_out_id == link_player_id(player_out_tag)
                  IN  IF event_div.side = "a"
                      THEN [st EXCEPT
                              !.home = SetTag(SetTag(st.home, player_in_id, InTag(minute)),
                                              player_out_id, OutTag(minute)),
                              !.home_subs = st.home_subs + 1]
                      ELSE IF event_div.side = "b"
                      THEN [st EXCEPT
                              !.away = SetTag(SetTag(st.away, player_in_id, InTag(minute)),
                                              player_out_id, OutTag(minute)),
                              !.away_subs = st.away_subs + 1]
                      ELSE st

RECURSIVE ApplyEvents(_, _)
ApplyEvents(st, event_divs) ==
    IF event_divs = <<>> THEN st
    ELSE ApplyEvents(ApplyEvent(st, Head(event_divs)), Tail(event_divs))

\* "Substitution Logic"
Substitutions(home, away, events_wrap, event_divs) ==
    LET st0 == [home |-> home, away |-> away, home_subs |-> 0, away_subs |-> 0]
    IN  IF events_wrap THEN ApplyEvents(st0, event_divs) ELSE st0

(***************************************************************************)
(* Starter flag.                                                           *)
(***************************************************************************)
\* the classifier without its final return: Python then returns None
assign_starter_flag_no_default(pdict) ==
    LET mins == pdict.minutes
        sub_info == lower(pdict.sub_in_out)
        has_out == StrIn(<<"o", "u", "t">>, sub_info)
        has_in == StrIn(<<"i", "n">>, sub_info)
    IN  IF mins < 90 /\ has_out THEN "yes"
        ELSE IF mins < 90 /\ has_in /\ ~has_out THEN "no"
        ELSE IF mins >= 90 /\ sub_info = NoSubTag THEN "yes"
        ELSE None

\* the classifier with rule 3 written mins > 90
assign_starter_flag_strict_90(pdict) ==
    LET mins == pdict.minutes
        sub_info == lower(pdict.sub_in_out)
        has_out == StrIn(<<"o", "u", "t">>, sub_info)
        has_in == StrIn(<<"i", "n">>, sub_info)
    IN  IF mins < 90 /\ has_out THEN "yes"
        ELSE IF mins < 90 /\ has_in /\ ~has_out THEN "no"
        ELSE IF mins > 90 /\ sub_info = NoSubTag THEN "yes"
        ELSE "no"

assign_starter_flag(pdict) ==
    LET mins == pdict.minutes
        sub_info == lower(pdict.sub_in_out)
        has_out == StrIn(<<"o", "u", "t">>, sub_info)
        has_in == StrIn(<<"i", "n">>, sub_info)
    IN  IF mins < 90 /\ has_out THEN "yes"
        ELSE IF mins < 90 /\ has_in /\ ~has_out THEN "no"
        ELSE IF mins >= 90 /\ sub_info = NoSubTag THEN "yes"
        ELSE "no"

AssignStarters(players) ==
    [i \in DOMAIN players |-> [players[i] EXCEPT !.starter = assign_starter_flag(players[i])]]

(***************************************************************************)
(* Team sums.                                                              *)
(***************************************************************************)
\* team_sums[...] = pv[dbcol] in place of +=: the last player's value
SumCol_assign(players, dbcol) ==
    IF players = <<>> THEN 0 ELSE players[Len(players)][dbcol]

RECURSIVE SumCol(_, _)
SumCol(players, dbcol) ==
    IF players = <<>> THEN 0
    ELSE Head(players)[dbcol] + SumCol(Tail(players), dbcol)

\* sum_side(pmap, prefix), for both prefixes: team_sums as [home, away], each a
\* function of the column
TeamSums(home, away) ==
    [home |-> [c \in DbCols |-> SumCol(home, c)],
     away |-> [c \in DbCols |-> SumCol(away, c)]]

\* int(round(x)) of a float x given in halves: Python 3 rounds a tie to the even integer
round_halves(h) ==
    IF h % 2 = 0 THEN h \div 2
    ELSE IF ((h - 1) \div 2) % 2 = 0 THEN (h - 1) \div 2 ELSE (h + 1) \div 2

\* the rounding applied to each player's value, then summed
RECURSIVE sca_val_per_player(_)
sca_val_per_player(players) ==
    IF players = <<>> THEN 0
    ELSE round_halves(Head(players).sca) + sca_val_per_player(Tail(players))

\* int(round(sum(x["sca"] for x in pmap.values())))
sca_val(players) == round_halves(SumCol(players, "sca"))

(***************************************************************************)
(* Shot events.                                                            *)
(***************************************************************************)
ShotValueStats ==
    {"minute", "player", "team", "outcome", "distance", "body_part",
     "sca_1_player", "sca_1_type", "sca_2_player", "sca_2_type"}
ShotIdStats == {"player", "sca_1_player", "sca_2_player"}

\* A shot row: [class, cells]; class is the set of the row's classes, cells maps the data-stat of each <td>/<th> of the
\* row to [text, csv, a, href]: its stripped text, its data-append-csv ("" when
\* absent), whether it holds an <a href>, and href.split("/").
get_value_from_td_or_th(row_, data_stat) ==
    IF data_stat \in DOMAIN row_.cells THEN row_.cells[data_stat].text ELSE None

\* the link is asked before the attribute
get_player_id_link_first(row_, data_stat) ==
    IF data_stat \notin DOMAIN row_.cells THEN None
    ELSE LET tag_ == row_.cells[data_stat]
         IN  IF tag_.a /\ Len(tag_.href) > 3 THEN tag_.href[4]
             ELSE IF tag_.csv # "" THEN tag_.csv
             ELSE None

get_player_id(row_, data_stat) ==
    IF data_stat \notin DOMAIN row_.cells THEN None
    ELSE LET tag_ == row_.cells[data_stat]
         IN  IF tag_.csv # "" THEN tag_.csv
             ELSE IF tag_.a /\ Len(tag_.href) > 3 THEN tag_.href[4]
             ELSE None

shot_tuple(match_url, row_) ==
    [match_report_url |-> match_url,
     vals |-> [k \in ShotValueStats |-> get_value_from_td_or_th(row_, k)],
     ids |-> [k \in ShotIdStats |-> get_player_id(row_, k)]]

\* the loop over rows__ skipping only the rows of class spacer
RECURSIVE BuildDataBatch_spacer_only(_, _)
BuildDataBatch_spacer_only(match_url, rows) ==
    IF rows = <<>> THEN <<>>
    ELSE LET row_ == Head(rows)
             rest == BuildDataBatch_spacer_only(match_url, Tail(rows))
             minute_val == get_value_from_td_or_th(row_, "minute")
             player_val == get_value_from_td_or_th(row_, "player")
         IN  IF "spacer" \in row_.class THEN rest
             ELSE IF minute_val \in {None, ""} \/ player_val \in {None, ""} THEN rest
             ELSE <<shot_tuple(match_url, row_)>> \o rest

\* the loop over rows__ that fills data_batch
RECURSIVE BuildDataBatch(_, _)
BuildDataBatch(match_url, rows) ==
    IF rows = <<>> THEN <<>>
    ELSE LET row_ == Head(rows)
             rest == BuildDataBatch(match_url, Tail(rows))
             minute_val == get_value_from_td_or_th(row_, "minute")
             player_val == get_value_from_td_or_th(row_, "player")
         IN  IF row_.class \cap {"spacer", "partial_table"} # {} THEN rest
             ELSE IF minute_val \in {None, ""} \/ player_val \in {None, ""} THEN rest
             ELSE <<shot_tuple(match_url, row_)>> \o rest

\* shots_table: [present, tbody, rows]
data_batch_of(match_url, shots_table) ==
    IF shots_table.present /\ shots_table.tbody
    THEN BuildDataBatch(match_url, shots_table.rows)
    ELSE <<>>

(***************************************************************************)
(* The database.  db is [teams, players, events]: the rows of                *)
(* all_matchups_teams and all_matchups_players as sets with a unique key,  *)
(* the rows of match_events in insertion order.                            *)
(***************************************************************************)
\* The unique keys are the storage's, not the repository's: (date, matchup, comp)
\* and (date, matchup, player identity, side).
TeamsKey(r) == <<r.date, r.matchup, r.comp>>
PlayersKey(r) == <<r.date, r.matchup, r.player_id, r.home_away>>

\* generate_insert_sql: INSERT ... ON DUPLICATE KEY UPDATE col = VALUES(col), every
\* column: a row with the key of r is replaced by r
UpsertTeam(rows, r) == {x \in rows : TeamsKey(x) # TeamsKey(r)} \cup {r}
UpsertPlayer(rows, r) == {x \in rows : PlayersKey(x) # PlayersKey(r)} \cup {r}

\* insert_events_sql: INSERT INTO match_events (...) VALUES (...), one row per tuple
PlainInsert(events, batch) == events \o batch

Execute(db, stmt) ==
    CASE stmt.table = "all_matchups_teams" ->
            [db EXCEPT !.teams = UpsertTeam(db.teams, stmt.row)]
      [] stmt.table = "all_matchups_players" ->
            [db EXCEPT !.players = UpsertPlayer(db.players, stmt.row)]
      [] stmt.table = "match_events" ->
            [db EXCEPT !.events = PlainInsert(db.events, stmt.rows)]

\* cursor.execute / executemany in order; the failAt-th raises mysql.connector.Error.
\* Gives the connection's view of the tables and whether every statement ran.
RECURSIVE ExecuteAll(_, _, _, _)
ExecuteAll(db, stmts, n, failAt) ==
    IF stmts = <<>> THEN [db |-> db, ok |-> TRUE]
    ELSE IF n = failAt THEN [db |-> db, ok |-> FALSE]
    ELSE ExecuteAll(Execute(db, Head(stmts)), Tail(stmts), n + 1, failAt)

\* a connection in autocommit mode: what ran before the failure stays
rollback_autocommit(committed, staged) == staged

\* conn.rollback(), or the close of a connection that never committed
rollback(committed, staged) == committed

\* conn.commit()
commit(committed, staged) == staged

\* The try block of lines 563-823 on the committed tables. fault is [kind, at]:
\* "connect" (get_db_connection raises), "execute" (the at-th statement raises),
\* "commit" (conn.commit raises) or "none".
Persist(db, stmts, fault) ==
    IF fault.kind = "connect" THEN [db |-> db, ok |-> FALSE]
    ELSE LET r == ExecuteAll(db, stmts, 1, IF fault.kind = "execute" THEN fault.at ELSE 0)
         IN  IF r.ok /\ fault.kind # "commit"
             THEN [db |-> commit(db, r.db), ok |-> TRUE]
             ELSE [db |-> rollback(db, r.db), ok |-> FALSE]

(***************************************************************************)
(* scrape_and_insert_match_data.                                           *)
(***************************************************************************)
\* A URL is the sequence of its parts, "https://" and "fbref.com" among them.
full_url(match_url) ==
    IF match_url # <<>> /\ Head(match_url) = "fbref.com" THEN <<"https://">> \o match_url ELSE match_url

\* The characters of each part a URL of the model is made of.
PartChars ==
    [t \in {"https://", "fbref.com", "/en/matches/", "/", " ", "m1", "m2", "Team-A",
            "AbCdEfGh", "IjKlMn0p", "abcdefg", "Ab-dEfGh"} |->
        CASE t = "https://" -> <<"h", "t", "t", "p", "s", ":", "/", "/">>
          [] t = "fbref.com" -> <<"f", "b", "r", "e", "f", ".", "c", "o", "m">>
          [] t = "/en/matches/" -> <<"/", "e", "n", "/", "m", "a", "t", "c", "h", "e", "s", "/">>
          [] t = "/" -> <<"/">>
          [] t = " " -> <<" ">>
          [] t = "m1" -> <<"m", "1">>
          [] t = "m2" -> <<"m", "2">>
          [] t = "Team-A" -> <<"T", "e", "a", "m", "-", "A">>
          [] t = "AbCdEfGh" -> <<"A", "b", "C", "d", "E", "f", "G", "h">>
          [] t = "IjKlMn0p" -> <<"I", "j", "K", "l", "M", "n", "0", "p">>
          [] t = "abcdefg" -> <<"a", "b", "c", "d", "e", "f", "g">>
          [] t = "Ab-dEfGh" -> <<"A", "b", "-", "d", "E", "f", "G", "h">>]

\* The URL as the str Python holds: its characters.
RECURSIVE text_of(_)
text_of(url) == IF url = <<>> THEN <<>> ELSE PartChars[Head(url)] \o text_of(Tail(url))

\* str.strip()
strip(s) ==
    LET inked == {i \in DOMAIN s : s[i] # " "}
    IN  IF inked = {} THEN <<>>
        ELSE SubSeq(s, CHOOSE i \in inked : \A j \in inked : i <= j,
                       CHOOSE i \in inked : \A j \in inked : j <= i)

\* [0-9A-Za-z]
Alnum ==
    {"0", "1", "2", "3", "4", "5", "6", "7", "8", "9",
     "a", "b", "c", "d", "e", "f", "g", "h", "i", "j", "k", "l", "m", "n", "o", "p", "q",
     "r", "s", "t", "u", "v", "w", "x", "y", "z",
     "A", "B", "C", "D", "E", "F", "G", "H", "I", "J", "K", "L", "M", "N", "O", "P", "Q",
     "R", "S", "T", "U", "V", "W", "X", "Y", "Z"}

\* re.compile(r'/[0-9A-Za-z]{8}/[0-9A-Za-z]{8}/').search(s)
bad_url_regex_search(s) ==
    \E i \in DOMAIN s :
        /\ i + 18 <= Len(s)
        /\ s[i] = "/"
        /\ \A k \in 1..8 : s[i + k] \in Alnum
        /\ s[i + 9] = "/"
        /\ \A k \in 10..17 : s[i + k] \in Alnum
        /\ s[i + 18] = "/"

\* schedule_url.py
is_bad_url(url_text) ==
    IF url_text = <<>> THEN FALSE ELSE bad_url_regex_search(strip(url_text))

matchup_str_of(home_team, away_team) == <<away_team, " @ ", home_team>>

\* Lines 219-547: everything the call derives from the parsed page.
Extract(m, d) ==
    LET ids == ResolveTeamIds(d.a_tags, m.home_team, m.away_team)
        parsed == ParseStatsTables(d.stats_tables, ids.home, ids.away,
                                   [home |-> <<>>, away |-> <<>>])
        subs == Substitutions(parsed.home, parsed.away, d.events_wrap, d.event_divs)
        home == AssignStarters(subs.home)
        away == AssignStarters(subs.away)
    IN  [home_team_id |-> ids.home, away_team_id |-> ids.away, warnings |-> ids.warn,
         final_score |-> final_score_of(d.sc_divs),
         possession |-> possession_of(d.team_stats),
         formations |-> formations_of(d.lineup_a, d.lineup_b),
         home_players |-> home, away_players |-> away,
         home_subs_val |-> subs.home_subs, away_subs_val |-> subs.away_subs,
         team_sums |-> TeamSums(home, away),
         home_sca_val |-> sca_val(home), away_sca_val |-> sca_val(away)]

\* teams_param
teams_row(m, x) ==
    [date |-> m.match_date, matchup |-> matchup_str_of(m.home_team, m.away_team),
     comp |-> m.comp, home_squad |-> m.home_team, away_squad |-> m.away_team,
     score |-> x.final_score,
     home_formation |-> x.formations.home, away_formation |-> x.formations.away,
     home_possession |-> x.possession.home, away_possession |-> x.possession.away,
     home_subs |-> x.home_subs_val, away_subs |-> x.away_subs_val,
     home |-> [c \in IntDbCols |-> x.team_sums.home[c]],
     away |-> [c \in IntDbCols |-> x.team_sums.away[c]],
     match_report_url |-> full_url(m.match_url),
     home_sca |-> x.home_sca_val, away_sca |-> x.away_sca_val,
     home_team_id |-> x.home_team_id, away_team_id |-> x.away_team_id]

\* param_player
player_row(m, pdict, squad_name, opp_name, home_away_val) ==
    [date |-> m.match_date, matchup |-> matchup_str_of(m.home_team, m.away_team),
     comp |-> m.comp, player |-> pdict.player, player_id |-> pdict.player_id,
     position |-> pdict.position, squad |-> squad_name, opponent |-> opp_name,
     home_away |-> home_away_val, minutes |-> pdict.minutes, starter |-> pdict.starter,
     shots |-> pdict.shots, shots_assisted |-> pdict.shots_assisted, sca |-> pdict.sca,
     sub_in_out |-> pdict.sub_in_out, match_report_url |-> full_url(m.match_url)]

\* insert_players(p_map, ...): one statement per player, in the dict's order
insert_players(m, p_map, squad_name, opp_name, home_away_val) ==
    [i \in DOMAIN p_map |->
        [table |-> "all_matchups_players",
         row |-> player_row(m, p_map[i], squad_name, opp_name, home_away_val)]]

\* The statements of the try block, in the order the cursor gets them.
Statements(m, d, x) ==
    <<[table |-> "all_matchups_teams", row |-> teams_row(m, x)]>>
    \o insert_players(m, x.home_players, m.home_team, m.away_team, "home")
    \o insert_players(m, x.away_players, m.away_team, m.home_team, "away")
    \o (IF data_batch_of(full_url(m.match_url), d.shots_table) # <<>>
        THEN <<[table |-> "match_events",
                rows |-> data_batch_of(full_url(m.match_url), d.shots_table)]>>
        ELSE <<>>)

DB == [teams |-> all_matchups_teams, players |-> all_matchups_players, events |-> match_events]

NoLocals ==
    [home_team_id |-> Sentinel, away_team_id |-> Sentinel, warnings |-> {},
     home_players |-> <<>>, away_players |-> <<>>, home_subs_val |-> 0, away_subs_val |-> 0,
     team_sums |-> TeamSums(<<>>, <<>>), home_sca_val |-> 0, away_sca_val |-> 0]

\* try: resp = requests.get(match_url); resp.raise_for_status()
\* except requests.RequestException: print, return.  Gives the requests made and
\* whether a response came.
Request_retry(url, fault) ==
    IF fault.kind = "request"
    THEN [made |-> <<[ev |-> "get", url |-> url], [ev |-> "get", url |-> url]>>, ok |-> FALSE]
    ELSE [made |-> <<[ev |-> "get", url |-> url]>>, ok |-> TRUE]

Request(url, fault) ==
    [made |-> <<[ev |-> "get", url |-> url]>>, ok |-> fault.kind # "request"]

\* the early returns with the check for .scorebox left out
returns_early_request_only(resp, d) == ~resp.ok

\* The two returns before the extraction, lines 207-217: the request failed, or the
\* page has no <div class="scorebox">.
returns_early(resp, d) == ~resp.ok \/ ~d.scorebox

\* One call of scrape_and_insert_match_data(match_date, home_team, away_team, comp,
\* match_url), under the fault the environment has for this call.
scrape_and_insert_match_data ==
    /\ calls < Len(faults)
    /\ calls' = calls + 1
    /\ UNCHANGED <<match, doc, faults>>
    /\ \E fault \in {faults[calls + 1]} :
       \E resp \in {Request(full_url(match.match_url), fault)} :
       \E early \in {returns_early(resp, doc)} :
       \E x \in {IF early THEN NoLocals ELSE Extract(match, doc)} :
       \E p \in {IF early THEN [db |-> DB, ok |-> FALSE]
                 ELSE Persist(DB, Statements(match, doc, x), fault)} :
          \* the shot rows are parsed after the team and player statements ran
          LET reached == /\ ~early
                         /\ fault.kind # "connect"
                         /\ ~(/\ fault.kind = "execute"
                              /\ fault.at <= 1 + Len(x.home_players) + Len(x.away_players))
          IN  /\ home_team_id' = x.home_team_id
              /\ away_team_id' = x.away_team_id
              /\ warnings' = x.warnings
              /\ home_players' = x.home_players
              /\ away_players' = x.away_players
              /\ home_subs_val' = x.home_subs_val
              /\ away_subs_val' = x.away_subs_val
              /\ team_sums' = x.team_sums
              /\ home_sca_val' = x.home_sca_val
              /\ away_sca_val' = x.away_sca_val
              /\ data_batch' = IF reached
                               THEN data_batch_of(full_url(match.match_url), doc.shots_table)
                               ELSE <<>>
              /\ outcome' = IF ~resp.ok THEN "request_error"
                            ELSE IF ~doc.scorebox THEN "no_scorebox"
                            ELSE IF p.ok THEN "inserted" ELSE "db_error"
              /\ log' = log \o resp.made
                            \o <<[ev |-> outcome', url |-> full_url(match.match_url)]>>
              /\ all_matchups_teams' = p.db.teams
              /\ all_matchups_players' = p.db.players
              /\ match_events' = p.db.events

(***************************************************************************)
(* main: one run of the script over the schedule table.  A schedule row is *)
(* [date, home, away, comp, match_report, page]: date is a day number,     *)
(* match_report the URL (<<>> when empty) and page what the site serves    *)
(* for it.                                                                 *)
(***************************************************************************)
NoDate == 0

stored_urls(table) == {r.match_report_url : r \in table}

\* the set of the stripped, non-empty match_report_url of both tables
get_already_scraped_urls(teams, players) ==
    {strip(text_of(u)) : u \in {v \in stored_urls(players) \cup stored_urls(teams) : v # <<>>}}

\* the date of the first row, by date, whose URL is not empty, not scraped and not bad
get_earliest_unscraped_date(sched, scraped_urls) ==
    LET open == {i \in DOMAIN sched :
                    /\ sched[i].match_report # <<>>
                    /\ strip(text_of(sched[i].match_report)) \notin scraped_urls
                    /\ ~bad_url_regex_search(strip(text_of(sched[i].match_report)))}
    IN  IF open = {} THEN NoDate
        ELSE sched[CHOOSE i \in open : \A j \in open : i <= j].date

\* result_rows.append for the rows of sched from index i on
RECURSIVE FilterRows(_, _, _)
FilterRows(sched, start_date, scraped_urls) ==
    IF sched = <<>> THEN <<>>
    ELSE LET r == Head(sched)
             rest == FilterRows(Tail(sched), start_date, scraped_urls)
         IN  IF /\ r.date >= start_date
                /\ r.match_report # <<>>
                /\ strip(text_of(r.match_report)) \notin scraped_urls
             THEN <<r>> \o rest
             ELSE rest

fetch_schedule_since_date(sched, start_date, scraped_urls) ==
    IF start_date = NoDate THEN <<>> ELSE FilterRows(sched, start_date, scraped_urls)

\* main, lines 836-848: up to the for loop
main_begin ==
    /\ pc \in {"idle", "done"}
    /\ runs < MaxRuns
    /\ runs' = runs + 1
    /\ \E scraped_urls \in {get_already_scraped_urls(all_matchups_teams, all_matchups_players)} :
       \E earliest_date \in {get_earliest_unscraped_date(schedule, scraped_urls)} :
       \E got \in {fetch_schedule_since_date(schedule, earliest_date, scraped_urls)} :
          /\ main_rows' = got
          /\ pos' = 1
          /\ pc' = IF got = <<>> THEN "done" ELSE "loop"
          /\ log' = log \o <<[ev |-> "main", url |-> <<>>]>>
                         \o (IF earliest_date = NoDate THEN <<[ev |-> "no_unscraped", url |-> <<>>]>>
                             ELSE IF got = <<>> THEN <<[ev |-> "no_matches", url |-> <<>>]>>
                             ELSE <<>>)
    /\ UNCHANGED <<match, doc, faults, calls, home_team_id, away_team_id, warnings,
                   home_players, away_players, home_subs_val, away_subs_val, team_sums,
                   home_sca_val, away_sca_val, data_batch, outcome, all_matchups_teams,
                   all_matchups_players, match_events, schedule>>
    /\ UNCHANGED <<url_vars, sr_vars>>

\* main, lines 852-861 and 868: the head of the for loop up to the call
main_loop ==
    /\ pc = "loop"
    /\ \E url_ \in {IF pos <= Len(main_rows) THEN main_rows[pos].match_report ELSE <<>>} :
          IF pos > Len(main_rows)
          THEN /\ pc' = "done"
               /\ log' = Append(log, [ev |-> "all_done", url |-> <<>>])
               /\ UNCHANGED <<match, doc, pos>>
          ELSE IF url_ = <<>>
          THEN /\ pos' = pos + 1
               /\ UNCHANGED <<match, doc, pc, log>>
          ELSE IF bad_url_regex_search(strip(text_of(url_)))
          THEN /\ pc' = "done"
               /\ log' = log \o <<[ev |-> "halting", url |-> url_],
                                   [ev |-> "all_done", url |-> <<>>]>>
               /\ UNCHANGED <<match, doc, pos>>
          ELSE /\ match' = [match_date |-> main_rows[pos].date, home_team |-> main_rows[pos].home,
                            away_team |-> main_rows[pos].away, comp |-> main_rows[pos].comp,
                            match_url |-> url_]
               /\ doc' = main_rows[pos].page
               /\ pc' = "call"
               /\ log' = Append(log, [ev |-> "processing", url |-> url_])
               /\ UNCHANGED pos
    /\ UNCHANGED <<faults, calls, home_team_id, away_team_id, warnings,
                   home_players, away_players, home_subs_val, away_subs_val, team_sums,
                   home_sca_val, away_sca_val, data_batch, outcome, all_matchups_teams,
                   all_matchups_players, match_events, schedule, main_rows, runs>>
    /\ UNCHANGED <<url_vars, sr_vars>>

\* the call, with a failure of the match ending the loop
main_call_stop_on_failure ==
    /\ pc = "call"
    /\ scrape_and_insert_match_data
    /\ pc' = IF outcome' = "inserted" THEN "loop" ELSE "done"
    /\ pos' = pos + 1
    /\ UNCHANGED <<schedule, main_rows, runs>>
    /\ UNCHANGED <<url_vars, sr_vars>>

\* main, lines 863-866: the call and the pause after it
main_call ==
    /\ pc = "call"
    /\ scrape_and_insert_match_data
    /\ pc' = "loop"
    /\ pos' = pos + 1
    /\ UNCHANGED <<schedule, main_rows, runs>>
    /\ UNCHANGED <<url_vars, sr_vars>>

NextMain == main_begin \/ main_loop \/ main_call

(***************************************************************************)
(* schedule_url.py: the updater of the match_report column of schedule.    *)
(* fixtures_dict is a function from (home, away) to the new URL, <<>> for  *)
(* None.                                                                   *)
(***************************************************************************)
\* SELECT MIN(date) ... WHERE match_report IS NULL OR match_report REGEXP ...
get_earliest_bad_or_null_url_date(sched) ==
    LET sel == {i \in DOMAIN sched :
                   \/ sched[i].match_report = <<>>
                   \/ bad_url_regex_search(text_of(sched[i].match_report))}
    IN  IF sel = {} THEN NoDate
        ELSE sched[CHOOSE i \in sel : \A j \in sel : sched[i].date <= sched[j].date].date

\* SELECT DISTINCT date ... WHERE date >= start_date ORDER BY date
RECURSIVE fetch_dates_from_earliest_bad_date(_, _)
fetch_dates_from_earliest_bad_date(sched, start_date) ==
    LET ds == {sched[i].date : i \in {j \in DOMAIN sched : sched[j].date >= start_date}}
    IN  IF start_date = NoDate \/ ds = {} THEN <<>>
        ELSE LET m == CHOOSE d \in ds : \A e \in ds : d <= e
             IN  <<m>> \o fetch_dates_from_earliest_bad_date(sched, m + 1)

\* what the daily page of the site gives; the empty dict on a failed request or
\* a page without tables
scrape_fixture_urls_for_date(date_str) == site[date_str]

\* the for loop of update_schedule_for_date from row i on: [staged, stop, made]
RECURSIVE UpdateRows(_, _, _, _)
UpdateRows(staged, i, date_str, fixtures_dict) ==
    IF i > Len(staged) THEN [staged |-> staged, stop |-> FALSE, made |-> <<>>]
    ELSE IF staged[i].date # date_str THEN UpdateRows(staged, i + 1, date_str, fixtures_dict)
    ELSE LET key == <<staged[i].home, staged[i].away>>
             new_url == IF key \in DOMAIN fixtures_dict THEN fixtures_dict[key] ELSE <<>>
         IN  IF new_url = <<>> THEN UpdateRows(staged, i + 1, date_str, fixtures_dict)
             ELSE IF is_bad_url(text_of(new_url))
             THEN [staged |-> staged, stop |-> TRUE,
                   made |-> <<[ev |-> "bad_new_url", url |-> new_url]>>]
             ELSE UpdateRows([staged EXCEPT ![i].match_report = new_url], i + 1,
                             date_str, fixtures_dict)

\* gives [sched, stop, made]: the table after the call, what the call returned
\* and what it printed
update_schedule_for_date(sched, date_str, fixtures_dict, connected) ==
    IF ~connected
    THEN [sched |-> sched, stop |-> FALSE, made |-> <<[ev |-> "connection_failed", url |-> <<>>]>>]
    ELSE LET r == UpdateRows(sched, 1, date_str, fixtures_dict)
         IN  [sched |-> IF r.stop THEN sched ELSE r.staged, stop |-> r.stop,
              made |-> r.made \o <<[ev |-> "updated", url |-> <<>>]>>]

\* main, lines 236-245
url_main_begin ==
    /\ upd_pc = "idle"
    /\ dates_to_update' =
          fetch_dates_from_earliest_bad_date(schedule, get_earliest_bad_or_null_url_date(schedule))
    /\ upd_pc' = IF dates_to_update' = <<>> THEN "done" ELSE "loop"
    /\ upd_pos' = 1
    /\ log' = Append(log, [ev |-> IF dates_to_update' = <<>> THEN "nothing_to_do" ELSE "main",
                           url |-> <<>>])
    /\ UNCHANGED <<match, doc, faults, calls, home_team_id, away_team_id, warnings,
                   home_players, away_players, home_subs_val, away_subs_val, team_sums,
                   home_sca_val, away_sca_val, data_batch, outcome, all_matchups_teams,
                   all_matchups_players, match_events, main_vars, site, stop_script, sr_vars>>

\* main, lines 248-267: one date of the for loop
url_main_loop ==
    /\ upd_pc = "loop"
    /\ \E connected \in BOOLEAN :
       \E date_str \in {dates_to_update[upd_pos]} :
       \E fixtures_dict \in {scrape_fixture_urls_for_date(date_str)} :
       \E res \in {IF DOMAIN fixtures_dict = {}
                   THEN [sched |-> schedule, stop |-> FALSE,
                         made |-> <<[ev |-> "no_fixtures", url |-> <<>>]>>]
                   ELSE update_schedule_for_date(schedule, date_str, fixtures_dict, connected)} :
          /\ schedule' = res.sched
          /\ stop_script' = res.stop
          /\ upd_pc' = IF res.stop \/ upd_pos = Len(dates_to_update) THEN "done" ELSE "loop"
          /\ upd_pos' = IF res.stop THEN upd_pos ELSE upd_pos + 1
          /\ log' = log \o <<[ev |-> "processing_date", url |-> <<>>]>> \o res.made
                         \o (IF res.stop THEN <<[ev |-> "stopping", url |-> <<>>]>> ELSE <<>>)
                         \o (IF upd_pc' = "done" THEN <<[ev |-> "all_done", url |-> <<>>]>> ELSE <<>>)
    /\ UNCHANGED <<match, doc, faults, calls, home_team_id, away_team_id, warnings,
                   home_players, away_players, home_subs_val, away_subs_val, team_sums,
                   home_sca_val, away_sca_val, data_batch, outcome, all_matchups_teams,
                   all_matchups_players, match_events, main_rows, pos, pc, runs,
                   site, dates_to_update, sr_vars>>

NextUrl == url_main_begin \/ url_main_loop

(***************************************************************************)
(* sr_newlines.py: the scraper of the scouting reports.                    *)
(***************************************************************************)
\* What extract_stats returns for the page the site gives: the request fails, the
\* page has no mapped statistic, or it has some.
extract_stats(page) ==
    [stats_dict |-> IF page = "stats" THEN {"goals_per90"} ELSE {},
     error_occurred |-> page = "request_error"]

\* main, lines 231-271: the connection and the SELECT
sr_main_begin ==
    /\ sr_pc \in {"idle", "done"}
    /\ sr_runs < MaxRuns
    /\ sr_runs' = sr_runs + 1
    /\ scraped_line_ids' = {}
    /\ sr_pos' = 1
    /\ \E db \in {"ok", "connect_error", "select_error"} :
       \E done \in {{scout_reports_done[i].line_id : i \in DOMAIN scout_reports_done}} :
          /\ sr_rows' = IF db = "ok"
                        THEN SelectSeq(scout_reports_url, LAMBDA r : r.line_id \notin done)
                        ELSE <<>>
          /\ sr_pc' = IF sr_rows' = <<>> THEN "done" ELSE "loop"
          /\ log' = log \o <<[ev |-> "main", line_id |-> 0]>>
                         \o (IF db = "ok" THEN <<>> ELSE <<[ev |-> db, line_id |-> 0]>>)
    /\ UNCHANGED <<match, doc, faults, calls, home_team_id, away_team_id, warnings,
                   home_players, away_players, home_subs_val, away_subs_val, team_sums,
                   home_sca_val, away_sca_val, data_batch, outcome, all_matchups_teams,
                   all_matchups_players, match_events, main_vars, url_vars,
                   scout_reports_url, scout_reports, scout_reports_done>>

\* main, lines 273-380: one row of the for loop
sr_main_row ==
    /\ sr_pc = "loop"
    /\ sr_pos' = sr_pos + 1
    /\ sr_pc' = IF sr_pos = Len(sr_rows) THEN "done" ELSE "loop"
    /\ \E row \in {sr_rows[sr_pos]} :
          IF row.line_id \in scraped_line_ids
          THEN UNCHANGED <<log, scout_reports, scout_reports_done, scraped_line_ids>>
          ELSE \E page \in {"request_error", "no_stats", "stats"} :
               \E db \in {"ok", "insert_error", "done_error"} :
               \E got \in {extract_stats(page)} :
               \E end \in {IF got.error_occurred THEN "request_error"
                            ELSE IF got.stats_dict = {} THEN "no_stats"
                            ELSE IF db = "insert_error" THEN "insert_failed"
                            ELSE IF db = "done_error" THEN "done_failed"
                            ELSE "done_inserted"} :
                  /\ scout_reports' = IF end \in {"done_failed", "done_inserted"}
                                      THEN scout_reports \cup {row.player_id}
                                      ELSE scout_reports
                  /\ scout_reports_done' = IF end = "done_inserted"
                                           THEN Append(scout_reports_done, row)
                                           ELSE scout_reports_done
                  /\ scraped_line_ids' = IF end = "request_error"
                                         THEN scraped_line_ids
                                         ELSE scraped_line_ids \cup {row.line_id}
                  /\ log' = log \o <<[ev |-> "get", line_id |-> row.line_id]>>
                                 \o (IF end \in {"done_failed", "done_inserted"}
                                     THEN <<[ev |-> "upserted", line_id |-> row.line_id]>>
                                     ELSE <<>>)
                                 \o <<[ev |-> end, line_id |-> row.line_id]>>
    /\ UNCHANGED <<match, doc, faults, calls, home_team_id, away_team_id, warnings,
                   home_players, away_players, home_subs_val, away_subs_val, team_sums,
                   home_sca_val, away_sca_val, data_batch, outcome, all_matchups_teams,
                   all_matchups_players, match_events, main_vars, url_vars,
                   scout_reports_url, sr_rows, sr_runs>>

NextSr == sr_main_begin \/ sr_main_row

\* a call of the function outside a run of main
direct_call ==
    pc = "direct" /\ scrape_and_insert_match_data /\ UNCHANGED <<main_vars, url_vars, sr_vars>>

Next == direct_call

(***************************************************************************)
(* Initial states.  Each specification draws one part of the page and of   *)
(* the schedule row from bounded sets and keeps the rest as in BaseDoc.    *)
(***************************************************************************)
SeqsUpTo(S, n) == UNION {[1..k -> S] : k \in 0..n}

NoFault == [kind |-> "none", at |-> 0]

Href(id, slash) == [id |-> id, slash |-> slash]
NoLink == [present |-> FALSE, id |-> "", slash |-> FALSE]
Link(id) == [present |-> TRUE, id |-> id, slash |-> TRUE]

StatRow(pid, pname, cells) ==
    [pth |-> TRUE, a |-> TRUE, href |-> Href(pid, TRUE), pname |-> pname, cells |-> cells]

BaseMatch ==
    [match_date |-> "2024-01-01", home_team |-> <<"a">>, away_team |-> <<"b">>,
     comp |-> "Premier League",
     match_url |-> <<"https://", "fbref.com", "/en/matches/", "m1">>]

BaseDoc ==
    [scorebox |-> TRUE,
     a_tags |-> <<[text |-> <<"a">>, href |-> Href("A", TRUE)],
                  [text |-> <<"b">>, href |-> Href("B", TRUE)]>>,
     sc_divs |-> <<"2", "1">>,
     team_stats |-> [present |-> TRUE, tds |-> 2, s_home |-> "55%", s_away |-> "45%"],
     lineup_a |-> [present |-> TRUE, th |-> TRUE, token |-> "4-4-2"],
     lineup_b |-> [present |-> TRUE, th |-> TRUE, token |-> "4-3-3"],
     stats_tables |->
        <<[code |-> "A", tbody |-> TRUE,
           rows |-> <<StatRow("p1", "P One", [k \in {"shots", "minutes"} |->
                                                 IF k = "shots" THEN "2" ELSE "90"])>>],
          [code |-> "B", tbody |-> TRUE,
           rows |-> <<StatRow("p3", "P Three", [k \in {"sca", "minutes"} |->
                                                   IF k = "sca" THEN "1.5" ELSE "90"])>>]>>,
     events_wrap |-> TRUE,
     event_divs |-> <<>>,
     shots_table |-> [present |-> FALSE, tbody |-> FALSE, rows |-> <<>>]]

InitLocals ==
    /\ home_team_id = NoLocals.home_team_id
    /\ away_team_id = NoLocals.away_team_id
    /\ warnings = NoLocals.warnings
    /\ home_players = NoLocals.home_players
    /\ away_players = NoLocals.away_players
    /\ home_subs_val = NoLocals.home_subs_val
    /\ away_subs_val = NoLocals.away_subs_val
    /\ team_sums = NoLocals.team_sums
    /\ home_sca_val = NoLocals.home_sca_val
    /\ away_sca_val = NoLocals.away_sca_val
    /\ data_batch = <<>>
    /\ outcome = "not_called"
    /\ calls = 0
    /\ log = <<>>

\* schedule_url.py is not run
InitUrlOff ==
    /\ site = <<>>
    /\ dates_to_update = <<>>
    /\ upd_pos = 0
    /\ upd_pc = "off"
    /\ stop_script = FALSE

\* sr_newlines.py is not run
InitSrOff ==
    /\ scout_reports_url = <<>>
    /\ scout_reports = {}
    /\ scout_reports_done = <<>>
    /\ scraped_line_ids = {}
    /\ sr_rows = <<>>
    /\ sr_pos = 0
    /\ sr_pc = "off"
    /\ sr_runs = 0

\* no run of main: the function is called on (match, doc) as it stands
InitDirect ==
    /\ schedule = <<>>
    /\ main_rows = <<>>
    /\ pos = 0
    /\ pc = "direct"
    /\ runs = 0
    /\ InitUrlOff
    /\ InitSrOff

InitTables ==
    /\ all_matchups_teams = {}
    /\ all_matchups_players = {}
    /\ match_events = <<>>

(***************************************************************************)
(* SpecResolve: the schedule names and the scorebox links vary.            *)
(***************************************************************************)
\* "c" is in no discovered name; "a" equals one and is, but for its case, in another
ScheduleNames == {<<"a">>, <<"c">>, Wolves, ManchesterUtd, NewcastleUtd}
DiscoveredNames == {<<"a">>, <<"A", "b">>, Wolves}
\* every name with codes A and B, a third code, and one href without its closing slash
Anchors ==
    [text : DiscoveredNames, href : {Href("A", TRUE), Href("B", TRUE)}]
        \cup {[text |-> Wolves, href |-> Href("C", TRUE)],
              [text |-> <<"a">>, href |-> Href("A", FALSE)]}

InitResolve ==
    /\ match \in {[BaseMatch EXCEPT !.home_team = h, !.away_team = a] :
                     h \in ScheduleNames, a \in ScheduleNames}
    /\ doc \in {[BaseDoc EXCEPT !.a_tags = t] : t \in SeqsUpTo(Anchors, MaxAnchors)}
    /\ faults = <<NoFault>>
    /\ InitDirect
    /\ InitLocals
    /\ InitTables

SpecResolve == InitResolve /\ [][Next]_vars

(***************************************************************************)
(* Team identity claims, under SpecResolve.                                *)
(***************************************************************************)
\* What the page and the schedule row give before the fallback step:
\* [found, ids, home, away].
BeforeFallback ==
    LET found == found_team_map_of(doc.a_tags)
    IN  [found |-> found,
         ids |-> {found[i].id : i \in DOMAIN found},
         home |-> ForceKnownId(match.home_team, safe_lookup(found, match.home_team)),
         away |-> ForceKnownId(match.away_team, safe_lookup(found, match.away_team))]
OnlyHomeResolved(b) == b.home # Sentinel /\ b.away = Sentinel
OnlyAwayResolved(b) == b.away # Sentinel /\ b.home = Sentinel
TeamRowWritten == \E r \in all_matchups_teams :
                     r.home_team_id = home_team_id /\ r.away_team_id = away_team_id

\* C7: when exactly one side is resolved after name matching and overrides and the
\* discovered codes minus its code have exactly one element, the other side gets
\* that element (in the locals and in the team row written).
C7_ComplementaryFallback ==
    outcome = "inserted" =>
        \A b \in {BeforeFallback} :
            /\ TeamRowWritten
            /\ (OnlyHomeResolved(b) /\ Cardinality(b.ids \ {b.home}) = 1)
                  => /\ home_team_id = b.home
                     /\ b.ids \ {b.home} = {away_team_id}
            /\ (OnlyAwayResolved(b) /\ Cardinality(b.ids \ {b.away}) = 1)
                  => /\ away_team_id = b.away
                     /\ b.ids \ {b.away} = {home_team_id}

\* discovered {A, B}, away = B, home unresolved: home becomes A
C7_Witness ==
    /\ outcome = "inserted"
    /\ OnlyAwayResolved(BeforeFallback)
    /\ BeforeFallback.ids = {"A", "B"}
    /\ away_team_id = "B"
    /\ home_team_id = "A"

\* C8: when exactly one side is resolved and the discovered codes minus its code do
\* not have exactly one element, the other side keeps the sentinel and the
\* fallback-not-possible warning of that side is printed.
C8_FallbackNotPossible ==
    outcome = "inserted" =>
        \A b \in {BeforeFallback} :
            /\ (OnlyHomeResolved(b) /\ Cardinality(b.ids \ {b.home}) # 1)
                  => /\ away_team_id = Sentinel
                     /\ home_team_id = b.home
                     /\ "fallback_away" \in warnings
            /\ (OnlyAwayResolved(b) /\ Cardinality(b.ids \ {b.away}) # 1)
                  => /\ home_team_id = Sentinel
                     /\ away_team_id = b.away
                     /\ "fallback_home" \in warnings

\* discovered {A, B, C}, home = A, away unresolved
C8_Witness ==
    /\ outcome = "inserted"
    /\ OnlyHomeResolved(BeforeFallback)
    /\ BeforeFallback.ids = {"A", "B", "C"}
    /\ home_team_id = "A"
    /\ away_team_id = Sentinel
    /\ "fallback_away" \in warnings

\* The static override table of the specification.
OverrideTable ==
    {<<Wolves, "8cec06e1">>, <<ManchesterUtd, "19538871">>, <<NewcastleUtd, "b2b47a98">>}

\* C9: a side whose display name is in the override table is written with the
\* table's code, whatever the page's links are and whether or not the fallback ran.
C9_OverrideTable ==
    outcome = "inserted" =>
        \A o \in OverrideTable :
            /\ match.home_team = o[1] =>
                  /\ home_team_id = o[2]
                  /\ \A r \in all_matchups_teams : r.home_team_id = o[2]
            /\ match.away_team = o[1] =>
                  /\ away_team_id = o[2]
                  /\ \A r \in all_matchups_teams : r.away_team_id = o[2]

\* home is Wolves, which the page links to code A; the fallback gave the away side A
C9_Witness ==
    /\ outcome = "inserted"
    /\ match.home_team = Wolves
    /\ safe_lookup(BeforeFallback.found, Wolves) = "A"
    /\ OnlyHomeResolved(BeforeFallback)
    /\ home_team_id = "8cec06e1"
    /\ away_team_id = "A"

\* The code the resolution order names for name n in the discovered pairs: the code
\* of the discovered name equal to n; else of the first discovered name containing
\* n, case-insensitively; else the sentinel.
IsExpectedCode(found, n, c) ==
    LET exact == {i \in DOMAIN found : found[i].name = n}
        contains == {i \in DOMAIN found : StrIn(lower(n), lower(found[i].name))}
    IN  \/ \E i \in exact : found[i].id = c
        \/ /\ exact = {}
           /\ \E i \in contains : found[i].id = c /\ \A j \in contains : i <= j
        \/ exact = {} /\ contains = {} /\ c = Sentinel

C11_SentinelNonFatalWarned ==
    (calls = 1 /\ (home_team_id = Sentinel \/ away_team_id = Sentinel)) =>
        /\ outcome = "inserted"
        /\ TeamRowWritten
        /\ warnings # {}

(***************************************************************************)
(* SpecPairing: the match is "a" against "b"; the scorebox links vary.     *)
(***************************************************************************)
InitPairing ==
    /\ match = BaseMatch
    /\ doc \in {[BaseDoc EXCEPT !.a_tags = t] : t \in SeqsUpTo(Anchors, MaxAnchors)}
    /\ faults = <<NoFault>>
    /\ InitDirect
    /\ InitLocals
    /\ InitTables

SpecPairing == InitPairing /\ [][Next]_vars

\* C28: whenever both codes are resolved (neither is the sentinel) for a match
\* between two different schedule names, the home code and the away code differ.
C28_SidesNeverShareCode ==
    (calls = 1 /\ match.home_team # match.away_team
               /\ home_team_id # Sentinel /\ away_team_id # Sentinel)
        => home_team_id # away_team_id

(***************************************************************************)
(* SpecLineup: the minutes of the players and the substitution events vary.*)
(***************************************************************************)
MinutesTexts == {"45", "89", "90", "120", ""}

MinutesRow(pid, text) == StatRow(pid, pid, [k \in {"minutes"} |-> text])

SubEvent(side, a, small_a, min_text) ==
    [icon |-> TRUE, substitute_in |-> TRUE, side |-> side, minute_divs |-> TRUE,
     min_text |-> min_text, info |-> TRUE, a |-> a, small_a |-> small_a]

\* p1, p2 play at home and p3 away; p9 is in no stats table.
Events ==
    {SubEvent("a", Link("p2"), Link("p1"), <<"4", "6", "'">>),
     SubEvent("a", Link("p1"), Link("p2"), <<"6", "0", "'">>),
     SubEvent("a", Link("p9"), Link("p1"), <<"4", "5", "+", "2", "'">>),
     SubEvent("a", Link("p2"), [present |-> TRUE, id |-> "p1", slash |-> FALSE], <<"7", "0", "'">>),
     SubEvent("a", NoLink, Link("p1"), <<"8", "0", "'">>),
     SubEvent("b", Link("p9"), Link("p3"), <<"7", "5", "'">>),
     SubEvent("b", Link("p3"), Link("p9"), <<"H", "T">>),
     SubEvent("", Link("p2"), Link("p1"), <<"3", "0", "'">>),
     [SubEvent("a", Link("p2"), Link("p1"), <<"1", "0", "'">>) EXCEPT !.substitute_in = FALSE]}

InitLineup ==
    /\ match = BaseMatch
    /\ doc \in {[BaseDoc EXCEPT
                    !.stats_tables =
                        <<[code |-> "A", tbody |-> TRUE,
                           rows |-> <<MinutesRow("p1", m1), MinutesRow("p2", m2)>>],
                          [code |-> "B", tbody |-> TRUE,
                           rows |-> <<MinutesRow("p3", m3)>>]>>,
                    !.event_divs = ev] :
                m1 \in MinutesTexts, m2 \in MinutesTexts, m3 \in {"45", "90"},
                ev \in SeqsUpTo(Events, MaxEvents)}
    /\ faults = <<NoFault>>
    /\ InitDirect
    /\ InitLocals
    /\ InitTables

SpecLineup == InitLineup /\ [][Next]_vars

(***************************************************************************)
(* Starter classifier claims, under SpecLineup.                            *)
(***************************************************************************)
\* The player dicts of both sides after the last call, and the rows written.
PlayersNow == {home_players[i] : i \in DOMAIN home_players}
                  \cup {away_players[i] : i \in DOMAIN away_players}

\* C3: every player is classified "yes" or "no", and two players with the same
\* minutes and the same substitution tag get the same flag, on whichever side and
\* at whichever place of the dicts they are; the rows written carry these flags.
C3_ClassifierTotalDeterministic ==
    outcome = "inserted" =>
        /\ \A p \in PlayersNow : p.starter \in {"yes", "no"}
        /\ \A p, q \in PlayersNow :
              (p.minutes = q.minutes /\ p.sub_in_out = q.sub_in_out) => p.starter = q.starter
        /\ \A r \in all_matchups_players :
              \E p \in PlayersNow : p.player_id = r.player_id /\ p.starter = r.starter

\* a home and an away player with 90 minutes and no tag, both starters, and a player
\* with 90 minutes and a tag, who falls to the final return
C3_Witness ==
    /\ outcome = "inserted"
    /\ \E i \in DOMAIN home_players, j \in DOMAIN away_players :
          /\ home_players[i].minutes = 90 /\ away_players[j].minutes = 90
          /\ home_players[i].sub_in_out = NoSubTag /\ away_players[j].sub_in_out = NoSubTag
          /\ home_players[i].starter = "yes" /\ away_players[j].starter = "yes"
    /\ \E i \in DOMAIN home_players :
          /\ home_players[i].minutes >= 90
          /\ home_players[i].sub_in_out # NoSubTag
          /\ home_players[i].starter = "no"

\* The kind of a stored tag: what the substitution processor wrote last.
IsOutTag(tag) == Len(tag) >= 3 /\ SubSeq(tag, 1, 3) = <<"O", "u", "t">>
IsInTag(tag) == Len(tag) >= 2 /\ SubSeq(tag, 1, 2) = <<"I", "n">>

\* The four-rule table.
FourRuleTable(minutes, tag) ==
    CASE minutes < 90 /\ IsOutTag(tag) -> "yes"
      [] minutes < 90 /\ IsInTag(tag) -> "no"
      [] minutes >= 90 /\ tag = NoSubTag -> "yes"
      [] OTHER -> "no"

\* C4: the flag of every player, in the dicts and in the rows written, is the one
\* the four-rule table gives for the player's minutes and tag.
C4_FourRuleTable ==
    outcome = "inserted" =>
        /\ \A p \in PlayersNow : p.starter = FourRuleTable(p.minutes, p.sub_in_out)
        /\ \A r \in all_matchups_players : r.starter = FourRuleTable(r.minutes, r.sub_in_out)

\* the four rules at once: taken off before 90, brought on, played 90 untagged,
\* and 45 minutes with no tag
C4_Witness ==
    /\ outcome = "inserted"
    /\ \E p \in PlayersNow : p.minutes < 90 /\ IsOutTag(p.sub_in_out) /\ p.starter = "yes"
    /\ \E p \in PlayersNow : p.minutes < 90 /\ IsInTag(p.sub_in_out) /\ p.starter = "no"
    /\ \E r \in all_matchups_players :
          r.minutes = 90 /\ r.sub_in_out = NoSubTag /\ r.starter = "yes"

(***************************************************************************)
(* Substitution claims, under SpecLineup.                                  *)
(***************************************************************************)
PlayerIds(players) == {players[i].player_id : i \in DOMAIN players}

IsSubstitution(e) == e.icon /\ e.substitute_in /\ e.info

\* The two links of an event: the incoming player is the first link of the detail
\* block, the outgoing player the link of its <small>.
InLink(e) == IF e.a.present THEN e.a ELSE e.small_a
OutLink(e) == e.small_a

\* The event names side s, its two links give player codes, and both codes are
\* players of that side.
Resolved(e, s, players) ==
    /\ IsSubstitution(e)
    /\ e.side = s
    /\ InLink(e).present /\ InLink(e).slash /\ InLink(e).id \in PlayerIds(players)
    /\ OutLink(e).present /\ OutLink(e).slash /\ OutLink(e).id \in PlayerIds(players)

ResolvedEvents(s, players) ==
    {i \in DOMAIN doc.event_divs : Resolved(doc.event_divs[i], s, players)}

NamedBy(s, players) ==
    {InLink(doc.event_divs[i]).id : i \in ResolvedEvents(s, players)}
        \cup {OutLink(doc.event_divs[i]).id : i \in ResolvedEvents(s, players)}

\* C18: only the events that name a side and two players of that side count and
\* tag: each counter is the number of such events of its side, and a player that
\* no such event names keeps the tag "n/a".
C18_SubstitutionAllOrNothing ==
    outcome = "inserted" =>
        /\ home_subs_val = Cardinality(ResolvedEvents("a", home_players))
        /\ away_subs_val = Cardinality(ResolvedEvents("b", away_players))
        /\ \A i \in DOMAIN home_players :
              home_players[i].player_id \notin NamedBy("a", home_players)
                  => home_players[i].sub_in_out = NoSubTag
        /\ \A i \in DOMAIN away_players :
              away_players[i].player_id \notin NamedBy("b", away_players)
                  => away_players[i].sub_in_out = NoSubTag

\* An event whose two links are two players.
TwoPlayers(e) == e.a.present /\ e.small_a.present /\ e.a.id # e.small_a.id

\* C19: a player of a side who comes on in one such event and goes off in another
\* one, each event naming two players, ends with the out tag, in whichever order
\* the two events stand.
C19_OutTakesPrecedence ==
    outcome = "inserted" =>
        \A i \in DOMAIN home_players :
            \A pid \in {home_players[i].player_id} :
                (\E m, n \in ResolvedEvents("a", home_players) :
                    /\ m # n
                    /\ TwoPlayers(doc.event_divs[m]) /\ TwoPlayers(doc.event_divs[n])
                    /\ InLink(doc.event_divs[m]).id = pid
                    /\ OutLink(doc.event_divs[n]).id = pid)
                    => IsOutTag(home_players[i].sub_in_out)

\* Player pid of the side came on in an event that names the side and two players
\* of it.
CameOn(pid, s, players) ==
    \E m \in ResolvedEvents(s, players) :
        TwoPlayers(doc.event_divs[m]) /\ InLink(doc.event_divs[m]).id = pid

\* C29: the row written for a player who came on in a substitution of their side
\* has starter "no", whatever the later events and the minutes are.
C29_SubstituteNeverStarter ==
    outcome = "inserted" =>
        \A r \in all_matchups_players :
            /\ (r.home_away = "home" /\ CameOn(r.player_id, "a", home_players))
                  => r.starter = "no"
            /\ (r.home_away = "away" /\ CameOn(r.player_id, "b", away_players))
                  => r.starter = "no"

(***************************************************************************)
(* SpecSums: the rows of the stats tables vary.  Every table holds one row, *)
(* so a sequence of tables is any interleaving of rows of both sides.      *)
(***************************************************************************)
Cells(shots, assisted, sca) ==
    [k \in {x \in {"shots", "assisted_shots", "sca"} :
               \/ x = "shots" /\ shots # None
               \/ x = "assisted_shots" /\ assisted # None
               \/ x = "sca" /\ sca # None} |->
        CASE k = "shots" -> shots [] k = "assisted_shots" -> assisted [] k = "sca" -> sca]

CellChoices ==
    {Cells("2", None, "0.5"), Cells("3", "1", "1.5"), Cells("abc", None, "2.5"),
     Cells(None, "2", None)}

OneRowTables ==
    {[code |-> c, tbody |-> TRUE, rows |-> <<StatRow(pid, pid, cells)>>] :
        c \in {"A", "B"}, pid \in {"p1", "p2"}, cells \in CellChoices}
        \cup {[code |-> "X", tbody |-> TRUE, rows |-> <<StatRow("p1", "p1", Cells("3", "1", "1.5"))>>]}

InitSums ==
    /\ match = BaseMatch
    /\ doc \in {[BaseDoc EXCEPT !.stats_tables = t] : t \in SeqsUpTo(OneRowTables, MaxStatRows)}
    /\ faults = <<NoFault>>
    /\ InitDirect
    /\ InitLocals
    /\ InitTables

SpecSums == InitSums /\ [][Next]_vars

(***************************************************************************)
(* Aggregation claims, under SpecSums.                                     *)
(***************************************************************************)
RECURSIVE SumOverRows(_, _)
SumOverRows(rows, col) ==
    IF rows = {} THEN 0
    ELSE LET r == CHOOSE r \in rows : TRUE
         IN  r[col] + SumOverRows(rows \ {r}, col)

RowsOfSide(side) == {r \in all_matchups_players : r.home_away = side}

\* C5: every integer statistic of the team row written is the sum of that
\* statistic over the player rows written for its side, 0 for a side without rows.
C5_AggregationCorrect ==
    outcome = "inserted" =>
        /\ all_matchups_teams # {}
        /\ \A t \in all_matchups_teams : \A c \in IntDbCols :
              /\ t.home[c] = SumOverRows(RowsOfSide("home"), c)
              /\ t.away[c] = SumOverRows(RowsOfSide("away"), c)
              /\ RowsOfSide("home") = {} => t.home[c] = 0
              /\ RowsOfSide("away") = {} => t.away[c] = 0

\* two home players with 2 and 3 shots, no away player
C5_Witness ==
    /\ outcome = "inserted"
    /\ Cardinality(RowsOfSide("home")) = 2
    /\ RowsOfSide("away") = {}
    /\ \A r \in RowsOfSide("home") : r.shots > 0
    /\ \E t \in all_matchups_teams : t.home["shots"] = 5 /\ t.away["shots"] = 0

Abs(n) == IF n < 0 THEN -n ELSE n

\* C6: the team's shot-creating-action total is an integer nearest to the sum of
\* the players' fractional values (sca is held in halves: |total - sum| <= 1/2).
C6_ScaRoundedSum ==
    outcome = "inserted" =>
        \A t \in all_matchups_teams :
            /\ Abs(2 * t.home_sca - SumOverRows(RowsOfSide("home"), "sca")) <= 1
            /\ Abs(2 * t.away_sca - SumOverRows(RowsOfSide("away"), "sca")) <= 1

\* two home players with 0.5 each: the total is 1, where rounding each gives 0
C6_Witness ==
    /\ outcome = "inserted"
    /\ Cardinality(RowsOfSide("home")) = 2
    /\ \A r \in RowsOfSide("home") : r.sca = 1
    /\ \E t \in all_matchups_teams : t.home_sca = 1

(***************************************************************************)
(* Record merge claims, under SpecSums.                                    *)
(***************************************************************************)
\* The rows of the tables of code c, in page order, that name a player.
RECURSIVE RowsOfCode(_, _)
RowsOfCode(tables, c) ==
    IF tables = <<>> THEN <<>>
    ELSE LET t == Head(tables)
             own == IF t.code = c /\ t.tbody
                    THEN SelectSeq(t.rows, LAMBDA r : r.pth /\ r.a)
                    ELSE <<>>
         IN  own \o RowsOfCode(Tail(tables), c)

\* The value statistic k of player pid has after the rows: that of the last row
\* of the player with a cell for k, 0 without such a row.
LastWritten(rows, pid, k) ==
    LET carrying == {i \in DOMAIN rows : rows[i].href.id = pid /\ k \in DOMAIN rows[i].cells}
    IN  IF carrying = {} THEN 0
        ELSE LET last == CHOOSE i \in carrying : \A j \in carrying : j <= i
             IN  IF k = "sca" THEN float_or_zero(rows[last].cells[k])
                 ELSE int_or_zero(rows[last].cells[k])

MergedSide(players, rows) ==
    /\ \A i, j \in DOMAIN players : players[i].player_id = players[j].player_id => i = j
    /\ PlayerIds(players) = {rows[i].href.id : i \in DOMAIN rows}
    /\ \A i \in DOMAIN players : \A k \in DOMAIN player_stat_map :
          players[i][player_stat_map[k]] = LastWritten(rows, players[i].player_id, k)

\* C21: after the tables of the page are processed each side holds one record per
\* player code of the rows of its tables and none else (so a table of a foreign
\* code leaves no trace), and each statistic of a record is the coerced value of
\* the last row of the player that carried it, 0 when no row carried it.
C21_PlayerRecordMerge ==
    calls = 1 =>
        /\ MergedSide(home_players, RowsOfCode(doc.stats_tables, home_team_id))
        /\ MergedSide(away_players, RowsOfCode(doc.stats_tables, away_team_id))

\* p1 of the home side has three rows: shots 3 with one assisted shot, then
\* assisted shots 2 alone, then a foreign table; shots stay 3, assisted become 2
C21_Witness ==
    /\ calls = 1
    /\ Len(doc.stats_tables) = 3
    /\ doc.stats_tables[1].code = home_team_id
    /\ doc.stats_tables[2].code = home_team_id
    /\ doc.stats_tables[3].code \notin {home_team_id, away_team_id}
    /\ doc.stats_tables[1].rows[1].href.id = "p1"
    /\ doc.stats_tables[2].rows[1].href.id = "p1"
    /\ doc.stats_tables[1].rows[1].cells = Cells("3", "1", "1.5")
    /\ doc.stats_tables[2].rows[1].cells = Cells(None, "2", None)
    /\ Len(home_players) = 1
    /\ home_players[1].shots = 3 /\ home_players[1].shots_assisted = 2 /\ home_players[1].sca = 3
    /\ away_players = <<>>

(***************************************************************************)
(* SpecCoerce: the texts of the cells of two rows of the home table vary.  *)
(***************************************************************************)
CellTexts == {"", "abc", "2", "1.5"}

CoerceRow(pid, shots, sca, minutes) ==
    StatRow(pid, pid, [k \in {"shots", "sca", "minutes"} |->
                          CASE k = "shots" -> shots [] k = "sca" -> sca [] k = "minutes" -> minutes])

InitCoerce ==
    /\ match = BaseMatch
    /\ doc \in {[BaseDoc EXCEPT
                    !.stats_tables =
                        <<[code |-> "A", tbody |-> TRUE,
                           rows |-> <<CoerceRow("p1", s1, c1, m1), CoerceRow("p2", s2, "2", m2)>>],
                          BaseDoc.stats_tables[2]>>] :
                   s1 \in CellTexts, c1 \in CellTexts, m1 \in CellTexts,
                   s2 \in {"2", "abc"}, m2 \in {"2", ""}}
    /\ faults = <<NoFault>>
    /\ InitDirect
    /\ InitLocals
    /\ InitTables

SpecCoerce == InitCoerce /\ [][Next]_vars

(***************************************************************************)
(* Coercion claims, under SpecCoerce.                                      *)
(***************************************************************************)
\* The texts of the model that are numbers.
NumberTexts == {"2", "1.5"}

\* What a cell of text t must leave in an integer field and in the fractional
\* field (in halves), as far as the claim says: 0 for a text that is no number.
IntFieldOk(t, v) == (t \notin NumberTexts => v = 0) /\ (t = "2" => v = 2)
SplitFieldOk(t, v) == (t \notin NumberTexts => v = 0) /\ (t = "2" => v = 4) /\ (t = "1.5" => v = 3)

RecordOk(cells, r) ==
    /\ IntFieldOk(cells["shots"], r.shots)
    /\ SplitFieldOk(cells["sca"], r.sca)
    /\ IntFieldOk(cells["minutes"], r.minutes)

ShotCell(text, csv) == [text |-> text, csv |-> csv, a |-> FALSE, href |-> <<>>]

ShotRow(class, minute, player, csv) ==
    [class |-> class,
     cells |-> [k \in {"minute", "player", "outcome"} |->
                  CASE k = "minute" -> ShotCell(minute, "")
                    [] k = "player" -> ShotCell(player, csv)
                    [] k = "outcome" -> ShotCell("Goal", "")]]

ShotRows ==
    {ShotRow({}, "12", "P One", "p1"),
     ShotRow({}, "40", "P Three", "p3"),
     ShotRow({"spacer"}, "40", "P Three", "p3"),
     ShotRow({}, "", "P One", "p1")}

\* the team row, the rows of p1 and p3, the shot batch
Faults ==
    {[kind |-> k, at |-> 0] : k \in {"none", "request", "connect", "commit"}}
        \cup {[kind |-> "execute", at |-> n] :
                 n \in 1..Len(Statements(BaseMatch, BaseDoc, Extract(BaseMatch, BaseDoc))) + 1}

InitPersist ==
    /\ match = BaseMatch
    /\ doc \in {[BaseDoc EXCEPT !.shots_table = [present |-> TRUE, tbody |-> TRUE, rows |-> r]] :
                   r \in SeqsUpTo(ShotRows, MaxShotRows)}
    /\ faults \in SeqsUpTo(Faults, MaxCalls) \ {<<>>}
    /\ InitDirect
    /\ InitLocals
    /\ InitTables

SpecPersist == InitPersist /\ [][Next]_vars

(***************************************************************************)
(* Persistence claims, under SpecPersist.                                  *)
(***************************************************************************)
Tables == <<all_matchups_teams, all_matchups_players, match_events>>

\* The rows of the match of this behaviour, in the three tables.
RowsOfMatch(teams, players, events) ==
    [teams |-> {r \in teams : r.match_report_url = full_url(match.match_url)},
     players |-> {r \in players : r.match_report_url = full_url(match.match_url)},
     events |-> {i \in DOMAIN events : events[i].match_report_url = full_url(match.match_url)}]

NoRowsOfMatch(teams, players, events) ==
    RowsOfMatch(teams, players, events) = [teams |-> {}, players |-> {}, events |-> {}]

\* C1: a call whose batch fails (at the connection, at any statement, the shot
\* insert included, or at the commit) leaves the three tables as they were before
\* the call; a match that had no row before the call has none after it.
C1_AtomicBatchFailure ==
    [][outcome' = "db_error" =>
          /\ Tables' = Tables
          /\ NoRowsOfMatch(all_matchups_teams, all_matchups_players, match_events)
                => NoRowsOfMatch(all_matchups_teams', all_matchups_players', match_events')]_vars

\* the shot insert, the last statement of a batch of four, failed on the first call
C1_Witness ==
    /\ calls = 1
    /\ outcome = "db_error"
    /\ faults[1] = [kind |-> "execute", at |-> 2 + Len(home_players) + Len(away_players)]
    /\ Len(home_players) + Len(away_players) = 2
    /\ data_batch # <<>>
    /\ NoRowsOfMatch(all_matchups_teams, all_matchups_players, match_events)

\* What one persistence of the batch into empty tables stores.
StoredOnce ==
    Persist([teams |-> {}, players |-> {}, events |-> <<>>],
            Statements(match, doc, Extract(match, doc)), NoFault).db

\* C2: after the batch was persisted, once or twice in succession, the three
\* tables hold what one persistence stores.
C2_PersistIdempotent ==
    (outcome = "inserted" /\ \A i \in 1..calls : faults[i].kind = "none") => DB = StoredOnce

(***************************************************************************)
(* SpecShots: the rows of the shot log vary, filler rows and rows with     *)
(* missing or empty cells among them.                                      *)
(***************************************************************************)
\* a row without the cell of data-stat stat
WithoutCell(row, stat) ==
    [row EXCEPT !.cells = [k \in DOMAIN row.cells \ {stat} |-> row.cells[k]]]

ShotRowsAll ==
    {ShotRow({}, "12", "P One", "p1"),
     ShotRow({}, "40", "P Three", "p3"),
     ShotRow({"shots_a"}, "44", "P One", "p1"),
     ShotRow({"spacer"}, "41", "P Three", "p3"),
     ShotRow({"partial_table"}, "42", "P One", "p1"),
     ShotRow({}, "", "P One", "p1"),
     ShotRow({}, "43", "", ""),
     WithoutCell(ShotRow({}, "45", "P One", "p1"), "player"),
     WithoutCell(ShotRow({}, "46", "P One", "p1"), "minute")}

InitShots ==
    /\ match = BaseMatch
    /\ doc \in {[BaseDoc EXCEPT !.shots_table = [present |-> TRUE, tbody |-> TRUE, rows |-> r]] :
                   r \in SeqsUpTo(ShotRowsAll, MaxShotRows)}
    /\ faults = <<NoFault>>
    /\ InitDirect
    /\ InitLocals
    /\ InitTables

SpecShots == InitShots /\ [][Next]_vars

(***************************************************************************)
(* Shot log claims, under SpecShots.                                       *)
(***************************************************************************)
IsFiller(row) == row.class \cap {"spacer", "partial_table"} # {}
HasText(row, stat) == stat \in DOMAIN row.cells /\ row.cells[stat].text # ""
KeptRow(row) == ~IsFiller(row) /\ HasText(row, "minute") /\ HasText(row, "player")

\* C13: the batch handed to the insert, and the rows stored, are the rows of the
\* table that are not filler rows and have a minute and a shooter name, in the
\* order of the table; no other row is in it.
C13_ShotRowFilter ==
    outcome = "inserted" =>
        \A kept \in {SelectSeq(doc.shots_table.rows, KeptRow)} :
            /\ Len(data_batch) = Len(kept)
            /\ \A k \in DOMAIN kept :
                  /\ data_batch[k].vals["minute"] = kept[k].cells["minute"].text
                  /\ data_batch[k].vals["player"] = kept[k].cells["player"].text
            /\ match_events = data_batch

\* a filler row with every cell filled, then a shot: the batch is the shot alone
C13_Witness ==
    /\ outcome = "inserted"
    /\ Len(doc.shots_table.rows) = 2
    /\ doc.shots_table.rows[1].class = {"partial_table"}
    /\ HasText(doc.shots_table.rows[1], "minute") /\ HasText(doc.shots_table.rows[1], "player")
    /\ KeptRow(doc.shots_table.rows[2])
    /\ Len(match_events) = 1
    /\ match_events[1].vals["minute"] = doc.shots_table.rows[2].cells["minute"].text

(***************************************************************************)
(* SpecShotIds: the identity attribute and the link of the shooter's cell  *)
(* and of the two contributors' cells of one shot row vary.                *)
(***************************************************************************)
\* href.split("/") of a player link and of a link that ends before the code
PlayerHref(id) == <<"", "en", "players", id, "Name">>
ShortHref == <<"", "en", "players">>

IdCell(text, csv, a, href) == [text |-> text, csv |-> csv, a |-> a, href |-> href]

\* attribute and link (of different codes), link alone, link without a code,
\* attribute alone, neither
IdCells ==
    {IdCell("P", "p1", TRUE, PlayerHref("p9")),
     IdCell("P", "", TRUE, PlayerHref("p2")),
     IdCell("P", "", TRUE, ShortHref),
     IdCell("P", "p3", FALSE, <<>>),
     IdCell("P", "", FALSE, <<>>)}

IdRow(cells) == [class |-> {}, cells |-> cells]

\* the shooter's cell is there; a contributor's cell may be missing
IdRows ==
    {IdRow([k \in {"minute", "player"} \cup present |->
               CASE k = "minute" -> ShotCell("12", "")
                 [] k = "player" -> c
                 [] k = "sca_1_player" -> c1
                 [] k = "sca_2_player" -> c2]) :
        c \in IdCells, c1 \in IdCells, c2 \in IdCells,
        present \in {{"sca_1_player", "sca_2_player"}, {"sca_1_player"}, {}}}

InitShotIds ==
    /\ match = BaseMatch
    /\ doc \in {[BaseDoc EXCEPT !.shots_table = [present |-> TRUE, tbody |-> TRUE, rows |-> <<r>>]] :
                   r \in IdRows}
    /\ faults = <<NoFault>>
    /\ InitDirect
    /\ InitLocals
    /\ InitTables

SpecShotIds == InitShotIds /\ [][Next]_vars

(***************************************************************************)
(* Shot identity claims, under SpecShotIds.                                *)
(***************************************************************************)
\* The code a link names: the path segment after /en/players/.
LinkIdentity(cell) ==
    IF cell.a /\ Len(cell.href) >= 4 /\ SubSeq(cell.href, 1, 3) = <<"", "en", "players">>
    THEN cell.href[4] ELSE None

IdentityOf(row, stat) ==
    IF stat \notin DOMAIN row.cells THEN None
    ELSE IF row.cells[stat].csv # "" THEN row.cells[stat].csv
    ELSE LinkIdentity(row.cells[stat])

\* C23: the shot row is stored whatever its identities are, and each of its three
\* identities is the cell's attribute when it has one, else the code of the
\* cell's link, else null.
C23_ShotIdentityResolution ==
    calls = 1 =>
        /\ Len(match_events) = 1
        /\ \A k \in ShotIdStats :
              match_events[1].ids[k] = IdentityOf(doc.shots_table.rows[1], k)

\* the shooter has attribute and link, the first contributor a link alone, the
\* second neither: the row is stored with p1, p2 and null
C23_Witness ==
    /\ calls = 1
    /\ ShotIdStats \subseteq DOMAIN doc.shots_table.rows[1].cells
    /\ doc.shots_table.rows[1].cells["player"] = IdCell("P", "p1", TRUE, PlayerHref("p9"))
    /\ doc.shots_table.rows[1].cells["sca_1_player"] = IdCell("P", "", TRUE, PlayerHref("p2"))
    /\ doc.shots_table.rows[1].cells["sca_2_player"] = IdCell("P", "", FALSE, <<>>)
    /\ Len(match_events) = 1
    /\ match_events[1].ids = [k \in ShotIdStats |->
                                 CASE k = "player" -> "p1"
                                   [] k = "sca_1_player" -> "p2"
                                   [] k = "sca_2_player" -> None]

(***************************************************************************)
(* SpecMeta: the scorebox, the score elements, the possession block and    *)
(* the lineup blocks of the page vary.                                     *)
(***************************************************************************)
ScoreDivs == {<<>>, <<"2">>, <<"2", "1">>, <<"2", "1", "0">>}

TeamStats ==
    {[present |-> FALSE, tds |-> 0, s_home |-> "", s_away |-> ""],
     [present |-> TRUE, tds |-> 1, s_home |-> "55%", s_away |-> ""],
     [present |-> TRUE, tds |-> 2, s_home |-> "55%", s_away |-> ""],
     [present |-> TRUE, tds |-> 2, s_home |-> "55%", s_away |-> "45%"]}

Lineups ==
    {[present |-> FALSE, th |-> FALSE, token |-> ""],
     [present |-> TRUE, th |-> FALSE, token |-> ""],
     [present |-> TRUE, th |-> TRUE, token |-> ""],
     [present |-> TRUE, th |-> TRUE, token |-> "4-4-2"]}

OneShot == [present |-> TRUE, tbody |-> TRUE, rows |-> <<ShotRow({}, "12", "P One", "p1")>>]

InitMeta ==
    /\ match = BaseMatch
    /\ doc \in {[BaseDoc EXCEPT !.scorebox = sb, !.sc_divs = sc, !.team_stats = ts,
                                 !.lineup_a = la, !.lineup_b = lb, !.shots_table = OneShot] :
                   sb \in BOOLEAN, sc \in ScoreDivs, ts \in TeamStats,
                   la \in Lineups, lb \in Lineups}
    /\ faults = <<NoFault>>
    /\ InitDirect
    /\ InitLocals
    /\ InitTables

SpecMeta == InitMeta /\ [][Next]_vars

(***************************************************************************)
(* Claims on the page's structure, under SpecMeta.                         *)
(***************************************************************************)
Locals ==
    [home_team_id |-> home_team_id, away_team_id |-> away_team_id, warnings |-> warnings,
     home_players |-> home_players, away_players |-> away_players,
     home_subs_val |-> home_subs_val, away_subs_val |-> away_subs_val,
     team_sums |-> team_sums, home_sca_val |-> home_sca_val, away_sca_val |-> away_sca_val]

\* C14: a page without the score container ends the call before anything is
\* extracted and with no row in any of the three tables; a page with it is
\* extracted and stored whatever is missing among the score elements, the
\* possession block and the lineup blocks.
C14_OnlyScoreboxAborts ==
    calls = 1 =>
        /\ ~doc.scorebox =>
              /\ outcome = "no_scorebox"
              /\ Locals = NoLocals /\ data_batch = <<>>
              /\ all_matchups_teams = {} /\ all_matchups_players = {} /\ match_events = <<>>
        /\ doc.scorebox =>
              /\ outcome = "inserted"
              /\ home_players # <<>> /\ away_players # <<>>
              /\ Cardinality(all_matchups_teams) = 1
              /\ Cardinality(all_matchups_players) = Len(home_players) + Len(away_players)
              /\ match_events = data_batch /\ Len(match_events) = 1

\* the page came without its score container: the call ended there, nothing stored
C14_Witness ==
    /\ calls = 1
    /\ ~doc.scorebox
    /\ outcome = "no_scorebox"
    /\ log = <<[ev |-> "get", url |-> full_url(match.match_url)],
               [ev |-> "no_scorebox", url |-> full_url(match.match_url)]>>
    /\ all_matchups_teams = {} /\ all_matchups_players = {} /\ match_events = <<>>

\* What the header of one lineup block gives for its side.
FormationOfSide(lineup) ==
    IF lineup.present /\ lineup.th /\ lineup.token # "" THEN lineup.token ELSE "Unknown"

\* C22: the formation stored for a side is the parenthesized token of the header
\* of that side's lineup block, "Unknown" when the block, the header or the token
\* is missing, whatever the other side's block holds.
C22_FormationsPerSide ==
    \A t \in all_matchups_teams :
        /\ t.home_formation = FormationOfSide(doc.lineup_a)
        /\ t.away_formation = FormationOfSide(doc.lineup_b)

(***************************************************************************)
(* SpecMain: the schedule table and the faults vary; main runs up to       *)
(* MaxRuns times over it.                                                  *)
(***************************************************************************)
MatchesUrl == <<"https://", "fbref.com", "/en/matches/">>
\* one code and the name of the match
GoodUrl == MatchesUrl \o <<"AbCdEfGh", "/", "Team-A">>
\* without its scheme
BareUrl == <<"fbref.com", "/en/matches/", "m2">>
\* two codes and the name of the match, and a blank at its end
HaltingUrl == MatchesUrl \o <<"AbCdEfGh", "/", "IjKlMn0p", "/", "Team-A", " ">>
\* two codes, the second one at the end
EndUrl == MatchesUrl \o <<"AbCdEfGh", "/", "IjKlMn0p">>
\* a code and seven characters
ShortUrl == MatchesUrl \o <<"AbCdEfGh", "/", "abcdefg", "/", "Team-A">>
\* a code and eight characters, one of them a dash
DashUrl == MatchesUrl \o <<"AbCdEfGh", "/", "Ab-dEfGh", "/">>

NoScorebox == [BaseDoc EXCEPT !.scorebox = FALSE]

ScheduleRow(date, home, away, url, page) ==
    [date |-> date, home |-> home, away |-> away, comp |-> "Premier League",
     match_report |-> url, page |-> page]

ScheduleRows ==
    {ScheduleRow(d, <<"a">>, <<"b">>, u, BaseDoc) :
        d \in 1..2, u \in {GoodUrl, HaltingUrl, EndUrl, ShortUrl, DashUrl, <<>>}}
      \cup {ScheduleRow(d, <<"b">>, <<"a">>, BareUrl, pg) : d \in 1..2, pg \in {BaseDoc, NoScorebox}}

\* ORDER BY date ASC; one row per match
Schedules ==
    {sc \in SeqsUpTo(ScheduleRows, MaxRows) :
        /\ \A i, j \in DOMAIN sc : i < j => sc[i].date <= sc[j].date
        /\ \A i, j \in DOMAIN sc :
              i < j => /\ sc[i].match_report # sc[j].match_report
                       /\ <<sc[i].date, sc[i].home>> # <<sc[j].date, sc[j].home>>}

MainFaults == {[kind |-> k, at |-> 0] : k \in {"none", "request", "commit"}}

InitMain ==
    /\ match = BaseMatch
    /\ doc = BaseDoc
    /\ schedule \in Schedules
    /\ faults \in [1..MaxCalls -> MainFaults]
    /\ main_rows = <<>>
    /\ pos = 0
    /\ pc = "idle"
    /\ runs = 0
    /\ InitUrlOff
    /\ InitSrOff
    /\ InitLocals
    /\ InitTables

SpecMain == InitMain /\ [][NextMain]_vars

(***************************************************************************)
(* Claims on main, under SpecMain.                                         *)
(***************************************************************************)
\* The segments of a text between its slashes.
RECURSIVE Split(_)
Split(s) ==
    LET slashes == {i \in DOMAIN s : s[i] = "/"}
    IN  IF slashes = {} THEN <<s>>
        ELSE LET i == CHOOSE i \in slashes : \A j \in slashes : i <= j
             IN  <<SubSeq(s, 1, i - 1)>> \o Split(SubSeq(s, i + 1, Len(s)))

IsCode8(seg) == Len(seg) = 8 /\ \A k \in DOMAIN seg : seg[k] \in Alnum

\* Two consecutive segments of the path (the segments after a slash) are 8
\* alphanumeric characters each.
TwoConsecutiveCodes(s) ==
    \E g \in {Split(s)} : \E i \in 2..(Len(g) - 1) : IsCode8(g[i]) /\ IsCode8(g[i + 1])

\* C12: main stops at a URL exactly when two consecutive segments of its path are
\* 8-character alphanumeric codes, the last segment included: every URL it
\* hands to the scraper has no such pair, every URL it stops at has one, and
\* is_bad_url agrees on every URL main has met.
C12_HaltingPredicate ==
    \A e \in {log[i] : i \in DOMAIN log} :
        /\ e.ev = "processing" =>
              /\ ~TwoConsecutiveCodes(strip(text_of(e.url)))
              /\ ~is_bad_url(text_of(e.url))
        /\ e.ev = "halting" =>
              /\ TwoConsecutiveCodes(strip(text_of(e.url)))
              /\ is_bad_url(text_of(e.url))

\* The places of the log where a run of main began.
MainStarts == {j \in DOMAIN log : log[j].ev = "main"}

\* No URL is requested twice in one run: between two requests of a URL a run began.
OneGetPerRun ==
    \A i, j \in DOMAIN log :
        (i < j /\ log[i].ev = "get" /\ log[j].ev = "get" /\ log[i].url = log[j].url)
            => \E k \in MainStarts : i < k /\ k < j

\* C15: a call whose request fails makes that one request and returns: the three
\* tables are as before (no row of the match, the rows of the other matches
\* untouched), the URL has been requested once in the run, and main goes on to
\* the next row.
C15_FetchErrorAbandons ==
    [][(calls' = calls + 1 /\ outcome' = "request_error") =>
          /\ Tables' = Tables
          /\ log' = log \o <<[ev |-> "get", url |-> full_url(match.match_url)],
                              [ev |-> "request_error", url |-> full_url(match.match_url)]>>
          /\ OneGetPerRun'
          /\ pc' = "loop" /\ pos' = pos + 1 /\ main_rows' = main_rows]_vars

\* the request of the first row failed, the second row was stored, the run is over
C15_Witness ==
    /\ pc = "done"
    /\ runs = 1
    /\ \E i, j \in DOMAIN log :
          /\ i < j
          /\ log[i].ev = "request_error"
          /\ log[j].ev = "inserted" /\ log[j].url # log[i].url
    /\ \A r \in all_matchups_teams : r.match_report_url # full_url(main_rows[1].match_report)
    /\ all_matchups_teams # {}

\* The call main made for the "processing" line at place i of the log ended in a
\* database error: its batch was rolled back.
RolledBackAt(i) ==
    /\ log[i].ev = "processing"
    /\ i + 2 <= Len(log)
    /\ log[i + 2].ev = "db_error"

RunLog ==
    IF MainStarts = {} THEN <<>>
    ELSE SubSeq(log, 1 + (CHOOSE j \in MainStarts : \A k \in MainStarts : k <= j), Len(log))

\* The scraper was called on URL u in the current run and returned.
ProcessedInRun(u) ==
    \E i \in DOMAIN RunLog :
        /\ RunLog[i] = [ev |-> "processing", url |-> u]
        /\ i + 2 <= Len(RunLog)
        /\ RunLog[i + 1] = [ev |-> "get", url |-> full_url(u)]
        /\ RunLog[i + 2].ev \in {"inserted", "request_error", "no_scorebox", "db_error"}

IsHaltingRow(r) == TwoConsecutiveCodes(strip(text_of(r.match_report)))

\* C17: when a run of main has ended, the scraper was called on every row of the
\* run that has no halting URL at or before it, whatever the calls on the rows
\* before it ended with: a request error, a missing scorebox or a database error.
C17_BadMatchNeverHalts ==
    pc = "done" =>
        \A l \in DOMAIN main_rows :
            (\A k \in 1..l : ~IsHaltingRow(main_rows[k]))
                => ProcessedInRun(main_rows[l].match_report)

\* two rows: the page of the first had no scorebox, the second was stored
C17_Witness ==
    /\ pc = "done"
    /\ Len(main_rows) = 2
    /\ \E i, j \in DOMAIN RunLog :
          /\ i < j
          /\ RunLog[i] = [ev |-> "no_scorebox", url |-> full_url(main_rows[1].match_report)]
          /\ RunLog[j] = [ev |-> "inserted", url |-> full_url(main_rows[2].match_report)]

\* The place of URL u among the rows of the run.
RowOf(u) == CHOOSE k \in DOMAIN main_rows : main_rows[k].match_report = u

\* C24: in a run of main the rows are taken in the order of the query, by ascending
\* date, and no row at or after the first row with a halting URL is handed to the
\* scraper or requested in the run.
C24_HaltingShortCircuit ==
    /\ \A i, j \in DOMAIN RunLog :
          (i < j /\ RunLog[i].ev = "processing" /\ RunLog[j].ev = "processing")
              => /\ RowOf(RunLog[i].url) < RowOf(RunLog[j].url)
                 /\ main_rows[RowOf(RunLog[i].url)].date <= main_rows[RowOf(RunLog[j].url)].date
    /\ \A h, l \in DOMAIN main_rows :
          (h <= l /\ IsHaltingRow(main_rows[h]))
              => \A i \in DOMAIN RunLog :
                    /\ RunLog[i] # [ev |-> "processing", url |-> main_rows[l].match_report]
                    /\ RunLog[i] # [ev |-> "get", url |-> full_url(main_rows[l].match_report)]

(***************************************************************************)
(* SpecUrl: the schedule table and the fixtures of the site vary;          *)
(* schedule_url's main runs over them.                                     *)
(***************************************************************************)
\* two codes and the name of the match
NewHaltingUrl == MatchesUrl \o <<"AbCdEfGh", "/", "IjKlMn0p", "/", "Team-A">>

Pairs == {<<<<"a">>, <<"b">>>>, <<<<"b">>, <<"a">>>>}

\* no fixture at all, or each pairing with no link, a good link or a halting one
FixtureDicts ==
    {<<>>} \cup {f \in [Pairs -> {<<>>, ShortUrl, NewHaltingUrl, EndUrl}] :
                    f[<<<<"b">>, <<"a">>>>] \in {<<>>, NewHaltingUrl}}

\* rows without a URL, with a good one, with a halting one; one row per
\* (date, home, away)
UrlSchedules ==
    {sc \in SeqsUpTo({ScheduleRow(d, p[1], p[2], u, BaseDoc) :
                          d \in 1..2, p \in Pairs, u \in {<<>>, GoodUrl, HaltingUrl}}, MaxRows) :
        /\ \A i, j \in DOMAIN sc : i < j => sc[i].date <= sc[j].date
        /\ \A i, j \in DOMAIN sc :
              i < j => <<sc[i].date, sc[i].home>> # <<sc[j].date, sc[j].home>>}

InitUrl ==
    /\ match = BaseMatch
    /\ doc = BaseDoc
    /\ faults = <<NoFault>>
    /\ schedule \in UrlSchedules
    /\ main_rows = <<>>
    /\ pos = 0
    /\ pc = "off"
    /\ runs = 0
    /\ site \in [1..2 -> FixtureDicts]
    /\ dates_to_update = <<>>
    /\ upd_pos = 0
    /\ upd_pc = "idle"
    /\ stop_script = FALSE
    /\ InitSrOff
    /\ InitLocals
    /\ InitTables

SpecUrl == InitUrl /\ [][NextUrl]_vars

(***************************************************************************)
(* Claims on the updater, under SpecUrl.                                   *)
(***************************************************************************)
\* The new URL the site has for row r, <<>> when it has none.
NewUrlOf(r) ==
    IF <<r.home, r.away>> \in DOMAIN site[r.date] THEN site[r.date][<<r.home, r.away>>] ELSE <<>>

\* The table with every row of date d that has a new URL set to it.
AllUpdated(d) ==
    [i \in DOMAIN schedule |->
        IF schedule[i].date = d /\ NewUrlOf(schedule[i]) # <<>>
        THEN [schedule[i] EXCEPT !.match_report = NewUrlOf(schedule[i])]
        ELSE schedule[i]]

\* A row of date d has a new URL that is a halting pattern.
HaltingNew(d) ==
    \E i \in DOMAIN schedule :
        /\ schedule[i].date = d
        /\ NewUrlOf(schedule[i]) # <<>>
        /\ TwoConsecutiveCodes(strip(text_of(NewUrlOf(schedule[i]))))

\* C25: a step of the updater on a date with a halting new URL leaves the table
\* as it was (the rows updated before the halting one included), returns True
\* and ends the run; a step on a date without one stores every new URL of the
\* date at once (none when the database cannot be reached) and returns False.
C25_UpdaterNeverStoresHalting ==
    [][(upd_pc = "loop" /\ site[dates_to_update[upd_pos]] # <<>>) =>
          \A d \in {dates_to_update[upd_pos]} :
              /\ HaltingNew(d) =>
                    \/ schedule' = schedule /\ stop_script' /\ upd_pc' = "done"
                    \/ log'[Len(log) + 2].ev = "connection_failed" /\ schedule' = schedule
              /\ ~HaltingNew(d) =>
                    /\ ~stop_script'
                    /\ \/ schedule' = AllUpdated(d)
                       \/ log'[Len(log) + 2].ev = "connection_failed" /\ schedule' = schedule]_vars

(***************************************************************************)
(* Claims on main, under SpecMain (continued).                             *)
(***************************************************************************)
\* The call main made for the "processing" line at place i of the log was
\* committed.
CommittedAt(i) ==
    /\ log[i].ev = "processing"
    /\ i + 2 <= Len(log)
    /\ log[i + 2].ev = "inserted"

\* C26: once the call on a schedule URL was committed, the URL (trimmed) is in the
\* already-scraped set computed from the two tables, and the match is neither
\* taken nor requested again, in this run or a later one.
C26_PersistedNotReprocessed ==
    \A i \in DOMAIN log :
        CommittedAt(i) =>
            /\ strip(text_of(log[i].url))
                  \in get_already_scraped_urls(all_matchups_teams, all_matchups_players)
            /\ \A j \in DOMAIN log :
                  j > i + 2 => /\ log[j] # log[i]
                               /\ log[j] # [ev |-> "get", url |-> full_url(log[i].url)]

\* Row r of the schedule has a URL that is not a halting pattern.
IsMatchRow(r) == r.match_report # <<>> /\ ~IsHaltingRow(r)

\* C27: when a run of main has ended and the schedule still holds a match whose URL
\* is neither scraped nor a halting pattern, the run has handed at least one
\* match with no halting URL to the scraper.
C27_RunProgress ==
    (pc = "done" /\ runs > 0) =>
        ((\E k \in DOMAIN schedule :
             /\ IsMatchRow(schedule[k])
             /\ strip(text_of(schedule[k].match_report))
                   \notin get_already_scraped_urls(all_matchups_teams, all_matchups_players))
            => \E k \in DOMAIN schedule :
                  IsMatchRow(schedule[k]) /\ ProcessedInRun(schedule[k].match_report))

(***************************************************************************)
(* SpecSr: runs of sr_newlines main; the rows of scout_reports_url vary,   *)
(* two rows of one line_id included (the case scraped_line_ids is for).    *)
(***************************************************************************)
InitSr ==
    /\ match = BaseMatch
    /\ doc = BaseDoc
    /\ faults = <<NoFault>>
    /\ schedule = <<>>
    /\ main_rows = <<>>
    /\ pos = 0
    /\ pc = "off"
    /\ runs = 0
    /\ InitUrlOff
    /\ scout_reports_url \in SeqsUpTo([line_id : 1..2, player_id : {"p1", "p2"}], MaxLines)
    /\ scout_reports = {}
    /\ scout_reports_done = <<>>
    /\ scraped_line_ids = {}
    /\ sr_rows = <<>>
    /\ sr_pos = 0
    /\ sr_pc = "idle"
    /\ sr_runs = 0
    /\ InitLocals
    /\ InitTables

SpecSr == InitSr /\ [][NextSr]_vars

(***************************************************************************)
(* Claims on the scout-report scraper, under SpecSr.                       *)
(***************************************************************************)
\* the line_id of the rows of scout_reports_done
DoneLineIds == {scout_reports_done[k].line_id : k \in DOMAIN scout_reports_done}

\* the place in log where the current run began, 0 before the first run
LastStart == IF MainStarts = {} THEN 0
             ELSE CHOOSE j \in MainStarts : \A k \in MainStarts : k <= j

\* the place in log where the run before the current one began, 0 if there is none
PrevStart == IF MainStarts \ {LastStart} = {} THEN 0
             ELSE CHOOSE j \in MainStarts \ {LastStart} :
                      \A k \in MainStarts \ {LastStart} : k <= j

\* the events that leave a line without its completion row
FailedEvents == {"request_error", "no_stats", "insert_failed"}

\* the SELECT of the current run returned its rows
SelectedOk ==
    /\ LastStart > 0
    /\ ~(LastStart < Len(log) /\ log[LastStart + 1].ev \in {"connect_error", "select_error"})

\* C30: in one run each line_id is fetched at most once; a row enters
\* scout_reports_done only after the upsert of that line into scout_reports was
\* committed; a line whose fetch failed, whose page had no statistics or whose
\* upsert failed has no row in scout_reports_done when the run ends and is among
\* the rows the next run selects.
C30_ScoutCompletionMarking ==
    /\ \A i, j \in DOMAIN log :
          (i < j /\ log[i].ev = "get" /\ log[j].ev = "get"
                 /\ log[i].line_id = log[j].line_id)
              => \E k \in MainStarts : i < k /\ k < j
    /\ \A i \in DOMAIN log :
          log[i].ev = "done_inserted"
              => i > 1 /\ log[i - 1] = [ev |-> "upserted", line_id |-> log[i].line_id]
    /\ \A k \in DOMAIN scout_reports_done :
          scout_reports_done[k].player_id \in scout_reports
    /\ \A i \in DOMAIN log :
          (i > LastStart /\ LastStart > 0 /\ log[i].ev \in FailedEvents)
              => log[i].line_id \notin DoneLineIds
    /\ \A i \in DOMAIN log :
          (PrevStart > 0 /\ PrevStart < i /\ i < LastStart /\ SelectedOk
                 /\ log[i].ev \in FailedEvents)
              => \E k \in DOMAIN sr_rows : sr_rows[k].line_id = log[i].line_id

====
